---- MODULE Spec2Model ----
(***************************************************************************)
(* Model of the video ingestion worker: the ingest controller              *)
(* (application/workflow.py), the transcoding adapter, the persistence     *)
(* service and the agentic annotation pipeline.                            *)
(***************************************************************************)
EXTENDS Integers, Sequences, FiniteSets, TLC

VARIABLES
    clock,        \* wall clock in seconds (datetime.now / NOW())
    ingest_jobs,  \* table public.ingest_jobs
    video,        \* table public.video
    segment,      \* table public.segment
    occurrence,   \* table public.occurrence
    fine_unit,    \* table semantic.fine_unit
    task,         \* one record per running process_message coroutine
    deliveries,   \* number of ingress events delivered so far
    lark,         \* LarkClient: the webhook, the notifications handed to it by
                  \* severity, and those it delivered
    conv          \* the annotation run of one video (process_video)

vars == <<clock, ingest_jobs, video, segment, occurrence, fine_unit, task,
          deliveries, lark, conv>>

----------------------------------------------------------------------------
(* Bounds of the model *)

MaxTasks == 2
MaxDeliveries == 2
MaxTicks == 2

(* Program constants *)

PROCESSING_TIMEOUT_SECONDS == 3600
max_retries == 3
TickSeconds == 1800

NULL == -1

Tasks == 1..MaxTasks

----------------------------------------------------------------------------
(* Ingress messages: parse_pubsub_push builds (object_name, etag, video_uid) *)

\* _extract_video_uid: the UUID token of uploads/<UUID>/..., else a UUID5 of
\* the whole name.  Both object names carry the token u1.
ExtractVideoUid(object_name) ==
    IF object_name \in {"uploads/u1/a.mp4", "uploads/u1/b.mp4"} THEN "u1"
    ELSE object_name

Messages ==
    { [object_name |-> "uploads/u1/a.mp4", etag |-> "e1",
       video_uid |-> ExtractVideoUid("uploads/u1/a.mp4")],
      [object_name |-> "uploads/u1/a.mp4", etag |-> "e2",
       video_uid |-> ExtractVideoUid("uploads/u1/a.mp4")] }

NoMessage == [object_name |-> "", etag |-> "", video_uid |-> ""]

----------------------------------------------------------------------------
(* Catalog and transcript inputs *)

\* Rows of semantic.fine_unit that exist before any run.
CatalogRows ==
    { [id |-> 1, kind |-> "phrase_sense", label |-> "give up",
       status |-> "active", external_key |-> <<"wn", "give up">>],
      [id |-> 2, kind |-> "word_sense", label |-> "want",
       status |-> "active", external_key |-> <<"wn", "want">>] }

FineIds(tbl) == { r.id : r \in tbl }

\* Transcripts the ASR provider may return (already through _parse_segments).
SegA == [start |-> 0, end |-> 3, text |-> "I give up"]
SegB == [start |-> 3, end |-> 5, text |-> "ok"]

AsrOutputs == { <<SegA>>, <<SegA, SegB>> }

Span(s, e) == [start |-> s, end |-> e]

Ann(i, f, s, e) ==
    [segment_index |-> i, fine_id |-> f, span |-> Span(s, e),
     rationale |-> "r", visual_comprehensibility |-> 1,
     textual_comprehensibility |-> 0]

----------------------------------------------------------------------------
(* PersistenceService *)

\* Python list indexing: a negative index counts from the end.
PyIndex(ids, i) == IF i >= 0 THEN ids[i + 1] ELSE ids[Len(ids) + i + 1]

PyInRange(ids, i) == IF i >= 0 THEN i < Len(ids) ELSE -i <= Len(ids)

NextId(tbl) == Cardinality(tbl) + 1

\* _insert_segments: upsert on (video_id, t_start, text), update t_end,
\* RETURNING id for every input position.
RECURSIVE InsertSegments(_, _, _, _)
InsertSegments(tbl, video_id, segs, ids) ==
    IF segs = <<>> THEN [tbl |-> tbl, ids |-> ids]
    ELSE
      LET seg == Head(segs)
          hit == { r \in tbl : r.video_id = video_id /\ r.t_start = seg.start
                                 /\ r.text = seg.text }
      IN IF hit # {}
         THEN LET old == CHOOSE r \in hit : TRUE
                  new == [old EXCEPT !.t_end = seg.end]
              IN InsertSegments((tbl \ {old}) \cup {new}, video_id, Tail(segs),
                                Append(ids, old.id))
         ELSE LET new == [id |-> NextId(tbl), video_id |-> video_id,
                          t_start |-> seg.start, t_end |-> seg.end,
                          text |-> seg.text]
              IN InsertSegments(tbl \cup {new}, video_id, Tail(segs),
                                Append(ids, new.id))

OccKey(r) == <<r.segment_id, r.fine_id, r.evidence.span>>

\* _insert_occurrences: the loop over the annotations.  st carries the
\* occurrence table, the counters, first_error, whether the transaction is in
\* the aborted state, and whether the loop raised.  dberr is the position of
\* the annotation at which the database reports a non-foreign-key error
\* (0: none).
RECURSIVE InsertOccurrences(_, _, _, _, _, _, _)
InsertOccurrences(st, segment_ids, anns, idx, method, catalog, dberr) ==
    IF idx > Len(anns) \/ st.raised THEN st
    ELSE
      LET ann == anns[idx]
          si == ann.segment_index
          rest(s) == InsertOccurrences(s, segment_ids, anns, idx + 1, method,
                                       catalog, dberr)
      IN IF si >= Len(segment_ids)
         THEN rest([st EXCEPT !.skipped = @ + 1])
         ELSE IF ~PyInRange(segment_ids, si)
         THEN \* IndexError: the generic except branch
              rest([st EXCEPT !.skipped = @ + 1,
                              !.first_error = IF @ = 0 THEN idx ELSE @])
         ELSE IF st.aborted
         THEN \* InFailedSQLTransactionError: a cascading PostgresError
              rest([st EXCEPT !.skipped = @ + 1])
         ELSE IF idx = dberr
         THEN \* a PostgresError that is not a foreign-key violation: raised
              \* when it is the first error, tallied otherwise
              IF st.first_error = 0
              THEN [st EXCEPT !.raised = TRUE, !.aborted = TRUE,
                              !.first_error = idx]
              ELSE rest([st EXCEPT !.skipped = @ + 1, !.aborted = TRUE])
         ELSE IF ann.fine_id \notin FineIds(catalog)
         THEN \* ForeignKeyViolationError
              rest([st EXCEPT !.skipped = @ + 1, !.aborted = TRUE,
                              !.first_error = IF @ = 0 THEN idx ELSE @])
         ELSE
           LET row == [segment_id |-> PyIndex(segment_ids, si),
                       fine_id |-> ann.fine_id,
                       reliability_score |-> 5,
                       detection_method |-> method,
                       evidence |->
                         [span |-> ann.span, rationale |-> ann.rationale,
                          visual_comprehensibility |-> ann.visual_comprehensibility,
                          textual_comprehensibility |-> ann.textual_comprehensibility]]
           IN IF \E r \in st.tbl : OccKey(r) = OccKey(row)
              THEN rest(st)      \* ON CONFLICT DO NOTHING: "INSERT 0 0"
              ELSE rest([st EXCEPT !.tbl = @ \cup {row}, !.inserted = @ + 1])

\* save_video_analysis: one transaction, segments then occurrences.  A
\* transaction that is in the aborted state when the block exits is rolled
\* back by COMMIT; a raise rolls back and becomes PersistenceError.
SaveVideoAnalysis(segtbl, occtbl, video_id, segs, anns, method, catalog, dberr) ==
    LET s1 == InsertSegments(segtbl, video_id, segs, <<>>)
        s2 == InsertOccurrences(
                 [tbl |-> occtbl, inserted |-> 0, skipped |-> 0,
                  first_error |-> 0, aborted |-> FALSE, raised |-> FALSE],
                 s1.ids, anns, 1, method, catalog, dberr)
        committed == ~s2.raised /\ ~s2.aborted
    IN [segment |-> IF committed THEN s1.tbl ELSE segtbl,
        occurrence |-> IF committed THEN s2.tbl ELSE occtbl,
        raised |-> s2.raised,
        stats |-> [segments_inserted |-> Len(s1.ids),
                   occurrences_inserted |-> s2.inserted,
                   occurrences_skipped |-> s2.skipped]]

\* update_video_status: status always, hls_path only when it is truthy.
UpdateVideoStatus(tbl, video_id, status, hls_path) ==
    { IF r.id = video_id
      THEN [r EXCEPT !.status = status,
                     !.hls_path = IF hls_path # "" THEN hls_path ELSE @]
      ELSE r : r \in tbl }

----------------------------------------------------------------------------
(* TranscodingService.transcode_video *)

AttemptOutcomes == {"ok", "TranscoderError", "Exception"}

HlsPath(video_uid) == "hls/" \o video_uid

\* The retry loop: attempt = 1..max_retries; outcomes[attempt] is what
\* create_transcode_job + wait_for_job do in that attempt (a failed job and a
\* poll timeout are both TranscoderError).
RECURSIVE TranscodeAttempts(_, _, _)
TranscodeAttempts(video_uid, outcomes, attempt) ==
    IF attempt > max_retries
    THEN [hls_path |-> "", status |-> "failed"]
    ELSE IF outcomes[attempt] = "ok"
    THEN [hls_path |-> HlsPath(video_uid), status |-> "success"]
    ELSE IF outcomes[attempt] = "TranscoderError"
    THEN IF attempt < max_retries
         THEN TranscodeAttempts(video_uid, outcomes, attempt + 1)
         ELSE [hls_path |-> "", status |-> "failed"]
    ELSE [hls_path |-> "", status |-> "failed"]

TranscodeVideo(video_uid, exists, outcomes) ==
    IF ~exists
    THEN [hls_path |-> "", status |-> "failed"]
    ELSE TranscodeAttempts(video_uid, outcomes, 1)

\* Every result transcode_video can return: the input object exists or not,
\* and each attempt succeeds, fails with TranscoderError or fails otherwise.
TranscodeResults(video_uid) ==
    { TranscodeVideo(video_uid, exists, outcomes) :
        exists \in BOOLEAN, outcomes \in [1..max_retries -> AttemptOutcomes] }

----------------------------------------------------------------------------
(* IngestVideoWorkflow.process_message, one coroutine per delivery *)

IdleTask ==
    [pc |-> "idle", msg |-> NoMessage, observed |-> "none", passed |-> FALSE,
     video_id |-> 0, hls_path |-> "", segs |-> <<>>, anns |-> <<>>,
     error |-> ""]

\* A slot is free before its first delivery, after process_message has
\* returned ("done") or raised ("raised"), and after an abort ("idle").
Idle(t) == task[t].pc \in {"idle", "done", "raised"}

JobRows(tbl, object_name, etag) ==
    { r \in tbl : r.object_key = object_name /\ r.etag = etag }

\* send_notification lets the failure of the dispatch reach its caller.
SendNotification_mut(severity) ==
    [lark |-> [lark EXCEPT ![severity] = @ + 1,
                           !.delivered = IF lark.webhook = "ok" THEN @ + 1 ELSE @],
     raised |-> lark.webhook # "ok"]

\* LarkClient.send_notification is entered with a message of this severity:
\* without a webhook URL it returns False at once; a 200 response returns
\* True; another response and every exception are logged and return False.
SendNotification(severity) ==
    [lark |-> [lark EXCEPT ![severity] = @ + 1,
                           !.delivered = IF lark.webhook = "ok" THEN @ + 1 ELSE @],
     raised |-> FALSE]

\* The notifier's state after send_notification.
LarkSend(severity) == SendNotification(severity).lark

\* webhooks.handle_video_ingestion: create_task(_process_async(message)).
\* Coroutines are interchangeable: the event takes the first free slot.
Deliver(t, m) ==
    /\ Idle(t)
    /\ \A u \in Tasks : u < t => ~Idle(u)
    /\ deliveries < MaxDeliveries
    /\ deliveries' = deliveries + 1
    /\ task' = [task EXCEPT ![t] = [IdleTask EXCEPT !.pc = "check", !.msg = m]]
    /\ UNCHANGED <<clock, ingest_jobs, video, segment, occurrence, fine_unit,
                   lark, conv>>

\* Time passes between any two awaits.
Tick ==
    /\ clock + TickSeconds <= MaxTicks * TickSeconds
    /\ clock' = clock + TickSeconds
    /\ UNCHANGED <<ingest_jobs, video, segment, occurrence, fine_unit, task,
                   deliveries, lark, conv>>

\* The process is shut down: in-flight coroutines abort, the tables stay.
Shutdown ==
    /\ \E t \in Tasks : ~Idle(t)
    /\ task' = [t \in Tasks |-> IF Idle(t) THEN task[t] ELSE IdleTask]
    /\ UNCHANGED <<clock, ingest_jobs, video, segment, occurrence, fine_unit,
                   deliveries, lark, conv>>

\* _check_idempotency, existing row: SELECT and the decision on its status.
\* IdempotencyError is a WorkflowError, so process_message handles it with
\* _handle_error.
CheckExisting(t) ==
    /\ task[t].pc = "check"
    /\ \E row \in JobRows(ingest_jobs, task[t].msg.object_name, task[t].msg.etag) :
         LET elapsed == clock - row.started_at IN
         /\ task' = [task EXCEPT ![t] =
              IF row.status = "done"
              THEN [@ EXCEPT !.pc = "he_job", !.observed = "done",
                             !.error = "Task already completed"]
              ELSE IF row.status = "processing" /\ row.started_at # NULL
                      /\ elapsed < PROCESSING_TIMEOUT_SECONDS
              THEN [@ EXCEPT !.pc = "he_job", !.observed = "inflight",
                             !.error = "Task already processing"]
              ELSE IF row.status = "processing" /\ row.started_at # NULL
              THEN [@ EXCEPT !.pc = "reset", !.observed = "timeout",
                             !.video_id = row.video_id]
              ELSE [@ EXCEPT !.pc = "fanout", !.observed = row.status,
                             !.passed = TRUE, !.video_id = row.video_id]]
    /\ UNCHANGED <<clock, ingest_jobs, video, segment, occurrence, fine_unit,
                   deliveries, lark, conv>>

\* The reset without "retry_count = retry_count + 1".
ResetTimedOut_mut(t) ==
    /\ task[t].pc = "reset"
    /\ ingest_jobs' =
         { IF r \in JobRows(ingest_jobs, task[t].msg.object_name, task[t].msg.etag)
           THEN [r EXCEPT !.status = "queued", !.started_at = NULL]
           ELSE r : r \in ingest_jobs }
    /\ task' = [task EXCEPT ![t] = [@ EXCEPT !.pc = "fanout", !.passed = TRUE]]
    /\ UNCHANGED <<clock, video, segment, occurrence, fine_unit, deliveries,
                   lark, conv>>

\* _check_idempotency, timed-out row: UPDATE ... SET status = 'queued',
\* started_at = NULL, retry_count = retry_count + 1, then return the job.
ResetTimedOut(t) ==
    /\ task[t].pc = "reset"
    /\ ingest_jobs' =
         { IF r \in JobRows(ingest_jobs, task[t].msg.object_name, task[t].msg.etag)
           THEN [r EXCEPT !.status = "queued", !.started_at = NULL,
                          !.retry_count = @ + 1]
           ELSE r : r \in ingest_jobs }
    /\ task' = [task EXCEPT ![t] = [@ EXCEPT !.pc = "fanout", !.passed = TRUE]]
    /\ UNCHANGED <<clock, video, segment, occurrence, fine_unit, deliveries,
                   lark, conv>>

\* _check_idempotency, no row: go on to _get_or_create_video.
CheckMissing(t) ==
    /\ task[t].pc = "check"
    /\ JobRows(ingest_jobs, task[t].msg.object_name, task[t].msg.etag) = {}
    /\ task' = [task EXCEPT ![t] = [@ EXCEPT !.pc = "video_select"]]
    /\ UNCHANGED <<clock, ingest_jobs, video, segment, occurrence, fine_unit,
                   deliveries, lark, conv>>

\* _get_or_create_video: SELECT id FROM video WHERE video_uid = $1
VideoSelect(t) ==
    /\ task[t].pc = "video_select"
    /\ LET rows == { v \in video : v.video_uid = task[t].msg.video_uid } IN
         IF rows = {}
         THEN task' = [task EXCEPT ![t] = [@ EXCEPT !.pc = "video_insert"]]
         ELSE \E v \in rows :
                task' = [task EXCEPT ![t] = [@ EXCEPT !.pc = "job_insert",
                                                      !.video_id = v.id]]
    /\ UNCHANGED <<clock, ingest_jobs, video, segment, occurrence, fine_unit,
                   deliveries, lark, conv>>

\* _get_or_create_video: INSERT INTO video ... 'PROCESSING' RETURNING id
VideoInsert(t) ==
    /\ task[t].pc = "video_insert"
    /\ LET id == NextId(video) IN
         /\ video' = video \cup
               { [id |-> id, video_uid |-> task[t].msg.video_uid,
                  status |-> "PROCESSING", hls_path |-> ""] }
         /\ task' = [task EXCEPT ![t] = [@ EXCEPT !.pc = "job_insert",
                                                    !.video_id = id]]
    /\ UNCHANGED <<clock, ingest_jobs, segment, occurrence, fine_unit,
                   deliveries, lark, conv>>

\* The primary key (object_key, etag) of ingest_jobs: an INSERT of a key that
\* is present raises a unique violation.
JobKeyFree(tbl, object_name, etag) == JobRows(tbl, object_name, etag) = {}

\* The INSERT into a table that does not refuse a key that is present.
JobInsert_mut(t) ==
    /\ task[t].pc = "job_insert"
    /\ ingest_jobs' = ingest_jobs \cup
          { [ctid |-> NextId(ingest_jobs),
             object_key |-> task[t].msg.object_name,
             etag |-> task[t].msg.etag,
             video_uid |-> task[t].msg.video_uid,
             video_id |-> task[t].video_id,
             status |-> "processing", started_at |-> clock,
             retry_count |-> 0, err |-> "", finished |-> FALSE] }
    /\ task' = [task EXCEPT ![t] = [@ EXCEPT !.pc = "fanout", !.passed = TRUE]]
    /\ UNCHANGED <<clock, video, segment, occurrence, fine_unit, deliveries,
                   lark, conv>>

\* _check_idempotency: INSERT INTO ingest_jobs ... 'processing', NOW().
\* A unique violation is a DatabaseError: the generic except branch of
\* process_message wraps it in WorkflowError and calls _handle_error.
JobInsert(t) ==
    /\ task[t].pc = "job_insert"
    /\ IF JobKeyFree(ingest_jobs, task[t].msg.object_name, task[t].msg.etag)
       THEN /\ ingest_jobs' = ingest_jobs \cup
                  { [ctid |-> NextId(ingest_jobs),
                     object_key |-> task[t].msg.object_name,
                     etag |-> task[t].msg.etag,
                     video_uid |-> task[t].msg.video_uid,
                     video_id |-> task[t].video_id,
                     status |-> "processing", started_at |-> clock,
                     retry_count |-> 0, err |-> "", finished |-> FALSE] }
            /\ task' = [task EXCEPT ![t] = [@ EXCEPT !.pc = "fanout",
                                                      !.passed = TRUE]]
       ELSE /\ ingest_jobs' = ingest_jobs
            /\ task' = [task EXCEPT ![t] = [@ EXCEPT !.pc = "he_job",
                              !.observed = "lost",
                              !.error = "Unique constraint violation"]]
    /\ UNCHANGED <<clock, video, segment, occurrence, fine_unit, deliveries,
                   lark, conv>>

\* _parallel_transcode_and_asr, both adapters succeed or only transcoding
\* fails: gather returns (TranscodeResult, ASRResult).
FanOutReturn(t) ==
    /\ task[t].pc = "fanout"
    /\ \E res \in TranscodeResults(task[t].msg.video_uid), segs \in AsrOutputs :
         task' = [task EXCEPT ![t] = [@ EXCEPT !.pc = "agentic",
                                               !.hls_path = res.hls_path,
                                               !.segs = segs]]
    /\ UNCHANGED <<clock, ingest_jobs, video, segment, occurrence, fine_unit,
                   deliveries, lark, conv>>

\* _parallel_transcode_and_asr, run_whisperx raises ASRError (retries
\* exhausted or an unexpected error): gather propagates it; ASRError is a
\* WorkflowError and goes to _handle_error.
FanOutRaise(t) ==
    /\ task[t].pc = "fanout"
    /\ task' = [task EXCEPT ![t] = [@ EXCEPT !.pc = "he_job",
                                               !.error = "ASR failed"]]
    /\ UNCHANGED <<clock, ingest_jobs, video, segment, occurrence, fine_unit,
                   deliveries, lark, conv>>

\* Annotation lists process_video may hand to the controller for a
\* transcript: nothing, one phrase annotation on segment 0, or one with a
\* fine_id that is not in the catalog.
AgenticOutputs(segs) == { <<>>, <<Ann(0, 1, 2, 9)>>, <<Ann(0, 99, 0, 1)>> }

\* _run_agentic: process_video returns (annotations, method, ontology_ver).
RunAgentic(t) ==
    /\ task[t].pc = "agentic"
    /\ \E anns \in AgenticOutputs(task[t].segs) :
         task' = [task EXCEPT ![t] = [@ EXCEPT !.pc = "persist", !.anns = anns]]
    /\ UNCHANGED <<clock, ingest_jobs, video, segment, occurrence, fine_unit,
                   deliveries, lark, conv>>

\* _persist_data: save_video_analysis; PersistenceError goes to the generic
\* except branch of process_message.
PersistData(t) ==
    /\ task[t].pc = "persist"
    /\ \E dberr \in 0..1 :
         LET res == SaveVideoAnalysis(segment, occurrence, task[t].video_id,
                                      task[t].segs, task[t].anns, "gemini_video",
                                      fine_unit, dberr)
         IN /\ segment' = res.segment
            /\ occurrence' = res.occurrence
            /\ task' = [task EXCEPT ![t] =
                 IF res.raised
                 THEN [@ EXCEPT !.pc = "he_job", !.error = "Unexpected error",
                                !.segs = <<>>, !.anns = <<>>]
                 ELSE [@ EXCEPT !.pc = "finalize_video",
                                !.segs = <<>>, !.anns = <<>>]]
    /\ UNCHANGED <<clock, ingest_jobs, video, fine_unit, deliveries, lark, conv>>

\* _finalize, step 1: update_video_status(video_id, READY, hls_path, ...)
FinalizeVideo(t) ==
    /\ task[t].pc = "finalize_video"
    /\ video' = UpdateVideoStatus(video, task[t].video_id, "READY", task[t].hls_path)
    /\ task' = [task EXCEPT ![t] = [@ EXCEPT !.pc = "finalize_job"]]
    /\ UNCHANGED <<clock, ingest_jobs, segment, occurrence, fine_unit,
                   deliveries, lark, conv>>

\* _finalize, step 2: UPDATE ingest_jobs SET status = 'done' WHERE key;
\* process_message returns.
FinalizeJob(t) ==
    /\ task[t].pc = "finalize_job"
    /\ ingest_jobs' =
         { IF r \in JobRows(ingest_jobs, task[t].msg.object_name, task[t].msg.etag)
           THEN [r EXCEPT !.status = "done", !.finished = TRUE]
           ELSE r : r \in ingest_jobs }
    /\ task' = [task EXCEPT ![t] = [IdleTask EXCEPT !.pc = "done"]]
    /\ UNCHANGED <<clock, video, segment, occurrence, fine_unit, deliveries,
                   lark, conv>>

\* _handle_error, step 1: UPDATE ingest_jobs SET status = 'error', err
\* WHERE video_uid = $2 AND status = 'processing'
HandleErrorJob(t) ==
    /\ task[t].pc = "he_job"
    /\ ingest_jobs' =
         { IF r.video_uid = task[t].msg.video_uid /\ r.status = "processing"
           THEN [r EXCEPT !.status = "error", !.err = task[t].error,
                          !.finished = TRUE]
           ELSE r : r \in ingest_jobs }
    /\ task' = [task EXCEPT ![t] = [@ EXCEPT !.pc = "he_video"]]
    /\ UNCHANGED <<clock, video, segment, occurrence, fine_unit, deliveries,
                   lark, conv>>

\* _handle_error, step 2: UPDATE video SET status = 'ERROR' WHERE video_uid
HandleErrorVideo(t) ==
    /\ task[t].pc = "he_video"
    /\ video' = { IF v.video_uid = task[t].msg.video_uid
                  THEN [v EXCEPT !.status = "ERROR"] ELSE v : v \in video }
    /\ task' = [task EXCEPT ![t] = [@ EXCEPT !.pc = "he_lark"]]
    /\ UNCHANGED <<clock, ingest_jobs, segment, occurrence, fine_unit,
                   deliveries, lark, conv>>

\* _handle_error, step 3: lark.send_error(...); then process_message
\* re-raises.
HandleErrorLark(t) ==
    /\ task[t].pc = "he_lark"
    /\ lark' = LarkSend("error")
    /\ task' = [task EXCEPT ![t] = [IdleTask EXCEPT !.pc = "raised"]]
    /\ UNCHANGED <<clock, ingest_jobs, video, segment, occurrence, fine_unit,
                   deliveries, conv>>

----------------------------------------------------------------------------
(* The controller under concurrent deliveries *)

IdleConv == [pc |-> "idle"]

NoLark == [error |-> 0, warning |-> 0, info |-> 0, delivered |-> 0,
           webhook |-> "ok"]

Init ==
    /\ clock = 0
    /\ ingest_jobs = {}
    /\ video = {}
    /\ segment = {}
    /\ occurrence = {}
    /\ fine_unit = CatalogRows
    /\ task = [t \in Tasks |-> IdleTask]
    /\ deliveries = 0
    /\ lark = NoLark
    /\ conv = IdleConv

Next ==
    \/ Tick
    \/ Shutdown
    \/ \E t \in Tasks, m \in Messages : Deliver(t, m)
    \/ \E t \in Tasks : CheckExisting(t)
    \/ \E t \in Tasks : ResetTimedOut(t)
    \/ \E t \in Tasks : CheckMissing(t)
    \/ \E t \in Tasks : VideoSelect(t)
    \/ \E t \in Tasks : VideoInsert(t)
    \/ \E t \in Tasks : JobInsert(t)
    \/ \E t \in Tasks : FanOutReturn(t)
    \/ \E t \in Tasks : FanOutRaise(t)
    \/ \E t \in Tasks : RunAgentic(t)
    \/ \E t \in Tasks : PersistData(t)
    \/ \E t \in Tasks : FinalizeVideo(t)
    \/ \E t \in Tasks : FinalizeJob(t)
    \/ \E t \in Tasks : HandleErrorJob(t)
    \/ \E t \in Tasks : HandleErrorVideo(t)
    \/ \E t \in Tasks : HandleErrorLark(t)

Spec == Init /\ [][Next]_vars

----------------------------------------------------------------------------
(* Properties of the controller *)

Stepped(t) == task'[t].pc # task[t].pc

KeyRows(tbl, t) == JobRows(tbl, task[t].msg.object_name, task[t].msg.etag)

VideoRows(tbl, uid) == { v \in tbl : v.video_uid = uid }

VideoById(tbl, id) == { v \in tbl : v.id = id }

\* C1: once a job is done and its Video READY, every step of a further
\* delivery of the same event leaves the IngestJob rows, the Video rows and
\* the Segment and Occurrence tables as they are and emits no fatal
\* notification.
C1_ReplayAfterDoneChangesNothing ==
    [][ \A t \in Tasks :
          ( /\ task[t].observed = "done"
            /\ Stepped(t)
            /\ \A v \in VideoRows(video, task[t].msg.video_uid) : v.status = "READY" )
          => /\ ingest_jobs' = ingest_jobs
             /\ video' = video
             /\ segment' = segment
             /\ occurrence' = occurrence
             /\ lark'.error = lark.error ]_vars

\* C2: a delivery that finds its row processing and younger than the timeout
\* starts no work and is not an error: none of its steps changes an IngestJob
\* row or a Video row or emits a fatal notification.
C2_InFlightDuplicateIsNotAnError ==
    [][ \A t \in Tasks :
          (task[t].observed = "inflight" /\ Stepped(t))
          => /\ task'[t].pc \notin {"fanout", "agentic", "persist",
                                    "finalize_video", "finalize_job"}
             /\ ingest_jobs' = ingest_jobs
             /\ video' = video
             /\ lark'.error = lark.error ]_vars

\* C3: of two deliveries of the same new key that race through the
\* idempotency check, one proceeds to the fan-out; the steps of the one that
\* lost (it found the row, or its insert hit the unique key) change neither
\* the winner's IngestJob row nor the Video status.
C3_LoserLeavesWinnerAlone ==
    [][ /\ \A t, u \in Tasks :
             ( /\ t # u
               /\ task'[t].msg = task'[u].msg
               /\ task'[t].observed = "none" /\ task'[u].observed = "none" )
             => ~(task'[t].passed /\ task'[u].passed)
        /\ \A t \in Tasks :
             (task[t].observed \in {"lost", "inflight"} /\ Stepped(t))
             => (KeyRows(ingest_jobs', t) = KeyRows(ingest_jobs, t) /\ video' = video)
      ]_vars

C5_VideoStatusMonotonic ==
    [][ \A v \in video : \A w \in video' :
          (w.id = v.id /\ w.status # v.status)
          => (v.status = "PROCESSING" /\ w.status \in {"READY", "ERROR"}) ]_vars

\* C6: when a run that passed the idempotency check fails, then at the step
\* where process_message raises, the run's IngestJob row has status error
\* with that failure's message, its Video has status ERROR and a fatal
\* notification is emitted.
C6_FailureMarksJobAndVideo ==
    [][ \A t \in Tasks :
          (task[t].pc = "he_lark" /\ task'[t].pc = "raised" /\ task[t].passed)
          => /\ KeyRows(ingest_jobs', t) # {}
             /\ \A r \in KeyRows(ingest_jobs', t) :
                  r.status = "error" /\ r.err = task[t].error
             /\ \A v \in VideoRows(video', task[t].msg.video_uid) :
                  v.status = "ERROR"
             /\ lark'.error = lark.error + 1 ]_vars

\* C7: a delivery that finds a processing row older than the timeout resets
\* it to queued with retry_count + 1 and goes on to the fan-out; when its
\* finalize runs, the Video becomes READY and the job done; and no other
\* step changes any retry_count.
C7_TimeoutRecovery ==
    [][ /\ \A t \in Tasks :
             (task[t].pc = "reset" /\ Stepped(t) /\ task'[t].pc # "idle")
             => /\ task[t].observed = "timeout"
                /\ task'[t].pc = "fanout"
                /\ \A r \in KeyRows(ingest_jobs, t) : \E q \in KeyRows(ingest_jobs', t) :
                     /\ q.ctid = r.ctid
                     /\ q.status = "queued"
                     /\ q.started_at = NULL
                     /\ q.retry_count = r.retry_count + 1
        /\ \A t \in Tasks :
             (task[t].observed = "timeout" /\ task[t].pc = "finalize_video"
                /\ task'[t].pc = "finalize_job")
             => \A v \in VideoById(video', task[t].video_id) : v.status = "READY"
        /\ \A t \in Tasks :
             (task[t].observed = "timeout" /\ task[t].pc = "finalize_job"
                /\ task'[t].pc = "done")
             => /\ KeyRows(ingest_jobs', t) # {}
                /\ \A r \in KeyRows(ingest_jobs', t) : r.status = "done"
        /\ \A r \in ingest_jobs : \A q \in ingest_jobs' :
             (q.ctid = r.ctid /\ q.retry_count # r.retry_count)
             => \E t \in Tasks :
                  /\ task[t].pc = "reset" /\ task'[t].pc = "fanout"
                  /\ r \in KeyRows(ingest_jobs, t)
                  /\ q.retry_count = r.retry_count + 1
      ]_vars

\* A row that was reset once has been finalized by the recovering run.
C7_Witness ==
    \E r \in ingest_jobs :
        /\ r.retry_count = 1
        /\ r.status = "done"
        /\ \A v \in VideoById(video, r.video_id) : v.status = "READY"

\* C8: when transcoding fails and ASR, annotation and persistence succeed,
\* the run's finalize leaves the Video READY with hls_path nil and the job
\* done.
C8_TranscodeFailureGivesNilHls ==
    [][ \A t \in Tasks :
          (task[t].pc = "finalize_video" /\ task'[t].pc = "finalize_job"
             /\ task[t].hls_path = "")
          => \A v \in VideoById(video', task[t].video_id) :
               v.status = "READY" /\ v.hls_path = "" ]_vars

\* C16: when the first failing annotation fails with a database error that
\* is not a foreign-key violation, save_video_analysis raises and leaves the
\* Segment and Occurrence tables as they were; and at the step where
\* process_message raises for it, the run's IngestJob row has status error
\* and its Video has status ERROR.
C16_PersistenceFirstError ==
    [][ \A t \in Tasks :
          /\ (task[t].pc = "persist" /\ task'[t].pc = "he_job")
             => segment' = segment /\ occurrence' = occurrence
          /\ (task[t].pc = "he_lark" /\ task'[t].pc = "raised"
                /\ task[t].error = "Unexpected error")
             => /\ KeyRows(ingest_jobs', t) # {}
                /\ \A r \in KeyRows(ingest_jobs', t) : r.status = "error"
                /\ \A v \in VideoRows(video', task[t].msg.video_uid) :
                     v.status = "ERROR" ]_vars

----------------------------------------------------------------------------
(* AgenticOrchestrator.process_video: one annotation run of a transcript *)

MaxMisses == 1
MaxToolTurns == 1

max_iterations == 10
gemini_max_concurrency == 20

\* MCPTools._query_word_senses / _query_phrase_senses: the ids of the active
\* rows of that kind whose label is the lemma.
QueryFineUnits(tbl, lemma, kind) ==
    IF kind \in {"word_sense", "phrase_sense"}
    THEN { r.id : r \in { q \in tbl : q.kind = kind /\ q.label = lemma
                                        /\ q.status = "active" } }
    ELSE {}

\* MCPTools.create_fine_unit, external_key: model name, lemma and a hash of
\* the definition.
ExternalKey(lemma, definition) == <<"gemini", lemma, definition>>

\* MCPTools.create_fine_unit: SELECT ... WHERE external_key = $1
ExistingFineUnits(tbl, lemma, definition) ==
    { r \in tbl : r.external_key = ExternalKey(lemma, definition) }

\* The unique constraint on semantic.fine_unit.external_key.
ExternalKeyFree(tbl, key) == \A r \in tbl : r.external_key # key

\* The loop of call_with_tools runs while iteration <= max_iterations.
AsksForTool_mut(w) ==
    /\ w.pc = "llm"
    /\ w.iteration <= max_iterations
    /\ Len(conv.segs) = 1 \/ w.iteration < MaxToolTurns

\* The response of the model carries a function call and the loop of
\* call_with_tools is still below max_iterations.  In a transcript of one
\* segment the model may ask for tools in every round; with more segments it
\* asks in at most MaxToolTurns rounds of a conversation.
AsksForTool(w) ==
    /\ w.pc = "llm"
    /\ w.iteration < max_iterations
    /\ Len(conv.segs) = 1 \/ w.iteration < MaxToolTurns

\* Function calls the language model may ask for in one turn.
QHit == [name |-> "query_fine_units", lemma |-> "give up",
         kind |-> "phrase_sense", definition |-> ""]
QMiss == [name |-> "query_fine_units", lemma |-> "zzz",
          kind |-> "phrase_sense", definition |-> ""]
QMissWord == [name |-> "query_fine_units", lemma |-> "zzz",
              kind |-> "word_sense", definition |-> ""]
QCreate == [name |-> "create_fine_unit", lemma |-> "zzz",
            kind |-> "phrase_sense", definition |-> "d"]
NoCall == [name |-> "", lemma |-> "", kind |-> "", definition |-> ""]

\* What the last create_fine_unit call of a conversation returned: fine_id
\* and status, or an error.
NoResult == [fine_id |-> NULL, status |-> ""]
ErrorResult == [fine_id |-> NULL, status |-> "error"]

BadScore(i) ==
    [segment_index |-> i, fine_id |-> 1, span |-> Span(0, 2),
     rationale |-> "r", visual_comprehensibility |-> 2,
     textual_comprehensibility |-> 0]

\* Final answers the language model may give for segment idx: no annotation,
\* one on this segment, one that names the other segment, one with a fine_id
\* created in the conversation, one with a score out of range.
FinalAnswers(idx) ==
    { <<>>, <<Ann(idx, 1, 2, 9)>>, <<Ann(1 - idx, 1, 2, 9)>>,
      <<Ann(idx, 3, 0, 2)>>, <<BadScore(idx)>> }

RequiredFields ==
    {"segment_index", "fine_id", "span", "rationale",
     "visual_comprehensibility", "textual_comprehensibility"}

\* WordAnnotator.validate_annotation and PhraseAnnotator.validate_annotation
\* (the same checks).
ValidateAnnotation(ann, seg) ==
    /\ RequiredFields \subseteq DOMAIN ann
    /\ ann.segment_index \in Int
    /\ ann.fine_id \in Int
    /\ 0 <= ann.visual_comprehensibility /\ ann.visual_comprehensibility <= 1
    /\ 0 <= ann.textual_comprehensibility /\ ann.textual_comprehensibility <= 1
    /\ {"start", "end"} \subseteq DOMAIN ann.span
    /\ ann.span.start \in Int /\ ann.span.end \in Int
    /\ 0 <= ann.span.start /\ ann.span.start < ann.span.end
    /\ ann.span.end <= Len(seg.text)
    /\ ann.rationale # ""

\* _process_segment, "valid_anns": the annotations of the answer that pass.
ValidAnns(anns, seg) == SelectSeq(anns, LAMBDA a : ValidateAnnotation(a, seg))

\* process_one of one segment.
QueuedWorker ==
    [pc |-> "queued", annotator |-> "phrase", iteration |-> 0, returned |-> {},
     call |-> NoCall, result |-> NoResult, sent |-> 0, all_anns |-> <<>>]

Workers == IF conv.pc = "segments" THEN DOMAIN conv.w ELSE {}

Running == { i \in Workers : conv.w[i].pc \in {"llm", "insert"} }

SetWorker(i, w) == [conv EXCEPT !.w[i] = w]

\* The conversation of the current annotator is over with these annotations:
\* process_one goes on to the word annotator, or returns all_anns.
EndConversation(w, anns) ==
    IF w.annotator = "phrase"
    THEN [w EXCEPT !.annotator = "word", !.iteration = 0, !.returned = {},
                   !.call = NoCall, !.result = NoResult, !.sent = 1,
                   !.all_anns = @ \o anns]
    ELSE [w EXCEPT !.pc = "done", !.iteration = 0, !.returned = {},
                   !.call = NoCall, !.result = NoResult, !.sent = 0,
                   !.all_anns = @ \o anns]

\* The text cache is tried before the multimodal one.
CreateCachedContentWithFallback_mut(video_uri, multimodal_ok, text_ok) ==
    IF text_ok
    THEN [cached_content |-> "text", method |-> "gemini_text"]
    ELSE IF video_uri # "" /\ multimodal_ok
    THEN [cached_content |-> "video", method |-> "gemini_video"]
    ELSE [cached_content |-> "", method |-> "gemini_nocache"]

\* _create_cached_content_with_fallback: (cached_content, method), where
\* multimodal_ok and text_ok say whether create_cached_content with and
\* without the video returns or raises VertexError.
CreateCachedContentWithFallback(video_uri, multimodal_ok, text_ok) ==
    IF video_uri # "" /\ multimodal_ok
    THEN [cached_content |-> "video", method |-> "gemini_video"]
    ELSE IF text_ok
    THEN [cached_content |-> "text", method |-> "gemini_text"]
    ELSE [cached_content |-> "", method |-> "gemini_nocache"]

\* process_video: the cache with its fallback, then
\* _process_segments_concurrent creates one process_one per segment.
CreateCache ==
    /\ conv.pc = "cache"
    /\ \E multimodal_ok, text_ok \in BOOLEAN :
         LET res == CreateCachedContentWithFallback(conv.video_uri,
                                                    multimodal_ok, text_ok)
         IN conv' = [pc |-> "segments", video_id |-> conv.video_id,
                     segs |-> conv.segs, method |-> res.method,
                     cached_content |-> res.cached_content,
                     video_uri |-> conv.video_uri,
                     multimodal_ok |-> multimodal_ok, text_ok |-> text_ok,
                     width |-> conv.width,
                     w |-> [i \in 1..Len(conv.segs) |-> QueuedWorker]]
    /\ UNCHANGED <<clock, ingest_jobs, video, segment, occurrence, fine_unit,
                   task, deliveries, lark>>

\* process_one enters its body without waiting for a slot.
Acquire_mut(i) ==
    /\ i \in Workers
    /\ conv.w[i].pc = "queued"
    /\ conv' = SetWorker(i, [conv.w[i] EXCEPT !.pc = "llm", !.sent = 1])
    /\ UNCHANGED <<clock, ingest_jobs, video, segment, occurrence, fine_unit,
                   task, deliveries, lark>>

\* process_one: "async with semaphore" on Semaphore(gemini_max_concurrency),
\* then the first send_message of the phrase conversation.
Acquire(i) ==
    /\ i \in Workers
    /\ conv.w[i].pc = "queued"
    /\ Cardinality(Running) < conv.width
    /\ conv' = SetWorker(i, [conv.w[i] EXCEPT !.pc = "llm", !.sent = 1])
    /\ UNCHANGED <<clock, ingest_jobs, video, segment, occurrence, fine_unit,
                   task, deliveries, lark>>

\* Every miss is sent as a warning.
HandleNotFound_mut(kind) == LarkSend("warning")

\* _handle_not_found: send_phrase_not_found is a WARNING, send_word_not_found
\* an INFO; another kind is only logged.
HandleNotFound(kind) ==
    IF kind = "phrase_sense" THEN LarkSend("warning")
    ELSE IF kind = "word_sense" THEN LarkSend("info")
    ELSE lark

\* call_with_tools, one round of the loop whose response asks for
\* query_fine_units: tool_handler_with_notification queries, notifies on a
\* miss, and the candidates go back to the model.  A run has at most
\* MaxMisses misses.
QueryTurn(i) ==
    /\ i \in Workers
    /\ AsksForTool(conv.w[i])
    /\ \E fc \in {QHit, QMiss, QMissWord} :
         LET candidates == QueryFineUnits(fine_unit, fc.lemma, fc.kind) IN
         /\ candidates = {} => lark.warning + lark.info < MaxMisses
         /\ lark' = IF candidates = {} THEN HandleNotFound(fc.kind) ELSE lark
         /\ conv' = SetWorker(i, [conv.w[i] EXCEPT
                        !.iteration = @ + 1, !.result = NoResult,
                        !.sent = @ + 1, !.call = fc,
                        !.returned = @ \cup candidates])
    /\ UNCHANGED <<clock, ingest_jobs, video, segment, occurrence, fine_unit,
                   task, deliveries>>

\* create_fine_unit goes to its INSERT without looking for the row.
CreateSelect_mut(i) ==
    /\ i \in Workers
    /\ AsksForTool(conv.w[i])
    /\ conv' = SetWorker(i, [conv.w[i] EXCEPT
                   !.iteration = @ + 1, !.pc = "insert", !.call = QCreate])
    /\ UNCHANGED <<clock, ingest_jobs, video, segment, occurrence, fine_unit,
                   task, deliveries, lark>>

\* call_with_tools, one round whose response asks for create_fine_unit:
\* the SELECT by external_key.  An existing row is returned with its status
\* and is the candidate; otherwise the INSERT follows.
CreateSelect(i) ==
    /\ i \in Workers
    /\ AsksForTool(conv.w[i])
    /\ LET fc == QCreate
           existing == ExistingFineUnits(fine_unit, fc.lemma, fc.definition)
       IN IF existing # {}
          THEN \E r \in existing :
                 conv' = SetWorker(i, [conv.w[i] EXCEPT
                            !.iteration = @ + 1,
                            !.result = [fine_id |-> r.id, status |-> r.status],
                            !.sent = @ + 1, !.call = fc,
                            !.returned = @ \cup {r.id}])
          ELSE conv' = SetWorker(i, [conv.w[i] EXCEPT
                            !.iteration = @ + 1, !.pc = "insert", !.call = fc])
    /\ UNCHANGED <<clock, ingest_jobs, video, segment, occurrence, fine_unit,
                   task, deliveries, lark>>

CreateInsert_mut(i) ==
    /\ i \in Workers
    /\ conv.w[i].pc = "insert"
    /\ LET fc == conv.w[i].call
           id == NextId(fine_unit)
           key == ExternalKey(fc.lemma, fc.definition)
       IN IF ExternalKeyFree(fine_unit, key)
          THEN /\ fine_unit' = fine_unit \cup
                     { [id |-> id, kind |-> fc.kind, label |-> fc.lemma,
                        status |-> "active", external_key |-> key] }
               /\ conv' = SetWorker(i, [conv.w[i] EXCEPT
                             !.pc = "llm",
                             !.result = [fine_id |-> id, status |-> "pending"],
                             !.sent = @ + 1,
                             !.returned = @ \cup {id}])
          ELSE /\ fine_unit' = fine_unit
               /\ conv' = SetWorker(i, [conv.w[i] EXCEPT
                             !.pc = "llm",
                             !.sent = @ + 1,
                             !.result = ErrorResult])
    /\ UNCHANGED <<clock, ingest_jobs, video, segment, occurrence, task,
                   deliveries, lark>>


\* create_fine_unit: INSERT INTO semantic.fine_unit ... 'pending' RETURNING
\* id; the new row is the candidate sent back to the model.  When the
\* external_key is taken by now, the INSERT raises, create_fine_unit re-raises
\* and call_with_tools answers the model {"error": ...}.
CreateInsert(i) ==
    /\ i \in Workers
    /\ conv.w[i].pc = "insert"
    /\ LET fc == conv.w[i].call
           id == NextId(fine_unit)
           key == ExternalKey(fc.lemma, fc.definition)
       IN IF ExternalKeyFree(fine_unit, key)
          THEN /\ fine_unit' = fine_unit \cup
                     { [id |-> id, kind |-> fc.kind, label |-> fc.lemma,
                        status |-> "pending", external_key |-> key] }
               /\ conv' = SetWorker(i, [conv.w[i] EXCEPT
                             !.pc = "llm",
                             !.result = [fine_id |-> id, status |-> "pending"],
                             !.sent = @ + 1,
                             !.returned = @ \cup {id}])
          ELSE /\ fine_unit' = fine_unit
               /\ conv' = SetWorker(i, [conv.w[i] EXCEPT
                             !.pc = "llm",
                             !.sent = @ + 1,
                             !.result = ErrorResult])
    /\ UNCHANGED <<clock, ingest_jobs, video, segment, occurrence, task,
                   deliveries, lark>>

\* call_with_tools returns the parsed answer (no function call in the
\* response, or max_iterations rounds done); _process_segment keeps the
\* annotations that validate_annotation accepts.
FinalAnswer(i) ==
    /\ i \in Workers
    /\ conv.w[i].pc = "llm"
    /\ \E anns \in FinalAnswers(i - 1) :
         conv' = SetWorker(i, EndConversation(conv.w[i],
                                 ValidAnns(anns, conv.segs[i])))
    /\ UNCHANGED <<clock, ingest_jobs, video, segment, occurrence, fine_unit,
                   task, deliveries, lark>>

\* An exception leaves process_one: gather re-raises it, and process_video
\* and _run_agentic raise.
ProcessVideoRaises ==
    [pc |-> "raised", video_id |-> conv.video_id, segs |-> conv.segs,
     method |-> conv.method,
     stats |-> [segments_inserted |-> 0, occurrences_inserted |-> 0,
                occurrences_skipped |-> 0],
     error |-> "Unexpected error"]

\* call_with_tools raises VertexError (timeout, quota, an answer that does
\* not parse): _process_segment sends an error notification and returns [].
\* An exception of send_error would leave the handler and process_one.
ConversationFails(i) ==
    /\ i \in Workers
    /\ conv.w[i].pc = "llm"
    /\ LET sent == SendNotification("error")
       IN /\ lark' = sent.lark
          /\ conv' = IF sent.raised THEN ProcessVideoRaises
                     ELSE SetWorker(i, EndConversation(conv.w[i], <<>>))
    /\ UNCHANGED <<clock, ingest_jobs, video, segment, occurrence, fine_unit,
                   task, deliveries>>

\* The exception of one process_one reaches gather and ends every task.
ProcessOneFails_mut(i) ==
    /\ i \in Workers
    /\ conv.w[i].pc = "llm"
    /\ lark' = LarkSend("error")
    /\ conv' = [conv EXCEPT !.w = [j \in DOMAIN conv.w |->
                                     [QueuedWorker EXCEPT !.pc = "done"]]]
    /\ UNCHANGED <<clock, ingest_jobs, video, segment, occurrence, fine_unit,
                   task, deliveries>>

\* Any other exception inside process_one (an answer that is not an object,
\* an annotation that is not one): error notification, the segment yields [].
\* An exception of send_error would leave process_one.
ProcessOneFails(i) ==
    /\ i \in Workers
    /\ conv.w[i].pc = "llm"
    /\ LET sent == SendNotification("error")
       IN /\ lark' = sent.lark
          /\ conv' = IF sent.raised THEN ProcessVideoRaises
                     ELSE SetWorker(i, [QueuedWorker EXCEPT !.pc = "done"])
    /\ UNCHANGED <<clock, ingest_jobs, video, segment, occurrence, fine_unit,
                   task, deliveries>>

\* A reviewer outside this service promotes a pending fine_unit row while
\* the conversations of the run are open.
Promote ==
    /\ conv.pc = "segments"
    /\ \E r \in fine_unit :
         /\ r.status = "pending"
         /\ fine_unit' = (fine_unit \ {r}) \cup {[r EXCEPT !.status = "active"]}
    /\ UNCHANGED <<clock, ingest_jobs, video, segment, occurrence, task,
                   deliveries, lark, conv>>

\* The batches flattened from the last segment to the first.
RECURSIVE Extend_mut(_, _)
Extend_mut(w, i) ==
    IF i > Len(w) THEN <<>> ELSE Extend_mut(w, i + 1) \o w[i].all_anns

\* _process_segments_concurrent, "for batch in results:
\* all_annotations.extend(batch)", from batch i on.
RECURSIVE Extend(_, _)
Extend(w, i) == IF i > Len(w) THEN <<>> ELSE w[i].all_anns \o Extend(w, i + 1)

\* asyncio.gather returns the batches in segment order; they are flattened
\* and process_video returns (annotations, method, ontology_ver).
Gather ==
    /\ conv.pc = "segments"
    /\ \A i \in Workers : conv.w[i].pc = "done"
    /\ conv' = [pc |-> "persist", video_id |-> conv.video_id,
                segs |-> conv.segs, method |-> conv.method,
                annotations |-> Extend(conv.w, 1)]
    /\ UNCHANGED <<clock, ingest_jobs, video, segment, occurrence, fine_unit,
                   task, deliveries, lark>>

\* _persist_data: save_video_analysis of the transcript and the annotations.
SaveAnalysis ==
    /\ conv.pc = "persist"
    /\ \E dberr \in 0..1 :
         LET res == SaveVideoAnalysis(segment, occurrence, conv.video_id,
                                      conv.segs, conv.annotations, conv.method,
                                      fine_unit, dberr)
         IN /\ segment' = res.segment
            /\ occurrence' = res.occurrence
            /\ conv' = [pc |-> IF res.raised THEN "raised" ELSE "saved",
                        video_id |-> conv.video_id, segs |-> conv.segs,
                        method |-> conv.method, stats |-> res.stats,
                        error |-> IF res.raised THEN "Unexpected error" ELSE ""]
    /\ UNCHANGED <<clock, ingest_jobs, video, fine_unit, task, deliveries, lark>>

\* _finalize of the run: the Video becomes READY with the HLS path and the
\* IngestJob done; process_message returns.
FinalizeRun ==
    /\ conv.pc = "saved"
    /\ video' = UpdateVideoStatus(video, conv.video_id, "READY",
                                  HlsPath("u1"))
    /\ ingest_jobs' =
         { IF r \in JobRows(ingest_jobs, "uploads/u1/a.mp4", "e1")
           THEN [r EXCEPT !.status = "done", !.finished = TRUE]
           ELSE r : r \in ingest_jobs }
    /\ conv' = [conv EXCEPT !.pc = "finalized"]
    /\ UNCHANGED <<clock, segment, occurrence, fine_unit, task, deliveries,
                   lark>>

\* _handle_error of the run, in one piece: the processing IngestJob rows of
\* the video become error, the Video ERROR, send_error; an exception in it
\* is logged; process_message re-raises.
HandleErrorRun ==
    /\ conv.pc = "raised"
    /\ ingest_jobs' =
         { IF r.video_uid = "u1" /\ r.status = "processing"
           THEN [r EXCEPT !.status = "error", !.err = conv.error,
                          !.finished = TRUE]
           ELSE r : r \in ingest_jobs }
    /\ video' = { IF v.video_uid = "u1"
                  THEN [v EXCEPT !.status = "ERROR"] ELSE v : v \in video }
    /\ lark' = SendNotification("error").lark
    /\ conv' = [conv EXCEPT !.pc = "failed"]
    /\ UNCHANGED <<clock, segment, occurrence, fine_unit, task, deliveries>>

\* The state in which _run_agentic is entered for the first delivery of an
\* object: the Video and IngestJob rows exist, ASR has returned a transcript.
\* The video URI is "gs://{bucket}/{object_name}"; the webhook of the
\* notifier and GEMINI_MAX_CONCURRENCY are drawn from the given sets.
InitRun(webhooks, widths) ==
    /\ clock = 0
    /\ video = { [id |-> 1, video_uid |-> "u1", status |-> "PROCESSING",
                  hls_path |-> ""] }
    /\ ingest_jobs = { [ctid |-> 1, object_key |-> "uploads/u1/a.mp4",
                        etag |-> "e1", video_uid |-> "u1", video_id |-> 1,
                        status |-> "processing", started_at |-> 0,
                        retry_count |-> 0, err |-> "", finished |-> FALSE] }
    /\ segment = {}
    /\ occurrence = {}
    /\ fine_unit = CatalogRows
    /\ task = [t \in Tasks |-> IdleTask]
    /\ deliveries = 0
    /\ \E webhook \in webhooks : lark = [NoLark EXCEPT !.webhook = webhook]
    /\ \E segs \in AsrOutputs, width \in widths :
         conv = [pc |-> "cache", video_id |-> 1, segs |-> segs,
                 video_uri |-> "gs://bucket/uploads/u1/a.mp4",
                 width |-> width]

\* The webhook answers 200; GEMINI_MAX_CONCURRENCY is configured as 1 or
\* left at its default.
InitAnn == InitRun({"ok"}, {1, gemini_max_concurrency})

\* ERROR_WEBHOOK_URL is not set, or the webhook answers 200, answers another
\* status, or the request fails.
Webhooks == {"ok", "non_200", "network_error", "unconfigured"}

InitLark == InitRun(Webhooks, {gemini_max_concurrency})

NextAnn ==
    \/ CreateCache
    \/ \E i \in Workers : Acquire(i)
    \/ \E i \in Workers : QueryTurn(i)
    \/ \E i \in Workers : CreateSelect(i)
    \/ \E i \in Workers : CreateInsert(i)
    \/ \E i \in Workers : FinalAnswer(i)
    \/ \E i \in Workers : ConversationFails(i)
    \/ \E i \in Workers : ProcessOneFails(i)
    \/ Promote
    \/ Gather
    \/ SaveAnalysis
    \/ FinalizeRun
    \/ HandleErrorRun

SpecAnn == InitAnn /\ [][NextAnn]_vars

\* The event loop runs a ready task, the semaphore wakes a waiter on release,
\* and every call to the language model and the database returns or raises.
SpecAnnFair == SpecAnn /\ WF_vars(NextAnn)

\* The run of one video with every state of the notifier's webhook.
SpecLark == InitLark /\ [][NextAnn]_vars

----------------------------------------------------------------------------
(* _parallel_transcode_and_asr: the two adapter tasks of one run *)

retry_backoff_seconds == 1

\* Backoff with the exponent one too high.
Backoff_mut(attempt) == retry_backoff_seconds * 2 ^ attempt

\* "backoff = self.config.retry_backoff_seconds * (2 ** (attempt - 1))"
Backoff(attempt) == retry_backoff_seconds * 2 ^ (attempt - 1)

\* An adapter task: attempt is the loop variable, attempts the submit+poll
\* attempts made, sleeps the waits so far, result what the task returned or
\* raised; checked tells that gcs.exists was asked about the input object,
\* submits counts the jobs submitted to the external service.
NewAdapter ==
    [pc |-> "start", attempt |-> 0, attempts |-> 0, sleeps |-> <<>>,
     result |-> "", checked |-> FALSE, submits |-> 0]

AdapterDone(a, result) == [a EXCEPT !.pc = "done", !.result = result]

InFanOut == "transcode" \in DOMAIN conv

AsrOutcomes == {"ok", "ReplicateError", "GCSError", "Exception"}

\* transcode_video up to the loop: a missing input object returns failed;
\* "for attempt in range(1, max_retries + 1)" with no iteration returns
\* failed ("Max retries exceeded").
TranscodeStart ==
    /\ InFanOut
    /\ conv.transcode.pc = "start"
    /\ conv' = [conv EXCEPT !.transcode =
                  IF ~conv.exists \/ conv.max_retries < 1
                  THEN AdapterDone([@ EXCEPT !.checked = TRUE], "failed")
                  ELSE [@ EXCEPT !.pc = "attempt", !.attempt = 1,
                                 !.checked = TRUE]]
    /\ UNCHANGED <<clock, ingest_jobs, video, segment, occurrence, fine_unit,
                   task, deliveries, lark>>

\* transcode_video, one pass of the loop body: create_transcode_job and
\* wait_for_job.  TranscoderError is retried while attempts remain; any other
\* exception is not.
TranscodeAttempt ==
    /\ InFanOut
    /\ conv.transcode.pc = "attempt"
    /\ \E outcome \in AttemptOutcomes :
         LET a == [conv.transcode EXCEPT !.attempts = @ + 1,
                                         !.submits = @ + 1] IN
         conv' = [conv EXCEPT !.transcode =
                    IF outcome = "ok" THEN AdapterDone(a, "success")
                    ELSE IF outcome = "TranscoderError"
                            /\ a.attempt < conv.max_retries
                    THEN [a EXCEPT !.pc = "sleep"]
                    ELSE AdapterDone(a, "failed")]
    /\ UNCHANGED <<clock, ingest_jobs, video, segment, occurrence, fine_unit,
                   task, deliveries, lark>>

\* transcode_video: "await asyncio.sleep(backoff); continue"
TranscodeSleep ==
    /\ InFanOut
    /\ conv.transcode.pc = "sleep"
    /\ conv' = [conv EXCEPT !.transcode =
                  [@ EXCEPT !.pc = "attempt", !.attempt = @ + 1,
                            !.sleeps = Append(@, Backoff(conv.transcode.attempt))]]
    /\ UNCHANGED <<clock, ingest_jobs, video, segment, occurrence, fine_unit,
                   task, deliveries, lark>>

\* run_whisperx up to the loop; with no iteration it raises ASRError ("Max
\* retries exceeded").
AsrStart ==
    /\ InFanOut
    /\ conv.asr.pc = "start"
    /\ conv' = [conv EXCEPT !.asr =
                  IF conv.max_retries < 1
                  THEN AdapterDone(@, "raised")
                  ELSE [@ EXCEPT !.pc = "attempt", !.attempt = 1]]
    /\ UNCHANGED <<clock, ingest_jobs, video, segment, occurrence, fine_unit,
                   task, deliveries, lark>>

\* run_whisperx, one pass of the loop body: signed URL, submit_whisperx,
\* wait_for_prediction, uploads, _parse_segments.  ReplicateError and
\* GCSError are retried while attempts remain; any other exception raises
\* ASRError at once.
AsrAttempt ==
    /\ InFanOut
    /\ conv.asr.pc = "attempt"
    /\ \E outcome \in AsrOutcomes, signed \in BOOLEAN :
         \* generate_signed_url may fail (GCSError, or another exception)
         \* before the submission; a missing object is never transcribed
         /\ ~signed => outcome \in {"GCSError", "Exception"}
         /\ outcome = "ok" => conv.exists
         /\ LET a == [conv.asr EXCEPT !.attempts = @ + 1,
                                      !.submits = IF signed THEN @ + 1 ELSE @]
            IN conv' = [conv EXCEPT !.asr =
                         IF outcome = "ok" THEN AdapterDone(a, "success")
                         ELSE IF outcome \in {"ReplicateError", "GCSError"}
                                 /\ a.attempt < conv.max_retries
                         THEN [a EXCEPT !.pc = "sleep"]
                         ELSE AdapterDone(a, "raised")]
    /\ UNCHANGED <<clock, ingest_jobs, video, segment, occurrence, fine_unit,
                   task, deliveries, lark>>

\* run_whisperx: "await asyncio.sleep(backoff); continue"
AsrSleep ==
    /\ InFanOut
    /\ conv.asr.pc = "sleep"
    /\ conv' = [conv EXCEPT !.asr =
                  [@ EXCEPT !.pc = "attempt", !.attempt = @ + 1,
                            !.sleeps = Append(@, Backoff(conv.asr.attempt))]]
    /\ UNCHANGED <<clock, ingest_jobs, video, segment, occurrence, fine_unit,
                   task, deliveries, lark>>

\* asyncio.gather(transcode_task, asr_task, return_exceptions=False): the
\* ASRError of asr_task is raised to process_message as soon as that task
\* has ended; transcode_task is not cancelled and not awaited.
GatherRaises ==
    /\ InFanOut
    /\ conv.pc = "fanout"
    /\ conv.asr.result = "raised"
    /\ conv' = [conv EXCEPT !.pc = "raised", !.error = "ASR failed"]
    /\ UNCHANGED <<clock, ingest_jobs, video, segment, occurrence, fine_unit,
                   task, deliveries, lark>>

\* asyncio.gather returns both results; the run goes on to _run_agentic.
GatherReturns ==
    /\ InFanOut
    /\ conv.pc = "fanout"
    /\ conv.transcode.pc = "done"
    /\ conv.asr.result = "success"
    /\ conv' = [conv EXCEPT !.pc = "agentic"]
    /\ UNCHANGED <<clock, ingest_jobs, video, segment, occurrence, fine_unit,
                   task, deliveries, lark>>

\* The state in which _parallel_transcode_and_asr has created its two tasks
\* for the first delivery of an object; MAX_RETRIES is configured as 0 or
\* left at its default; the input object is in the raw bucket or not.
InitFan ==
    /\ clock = 0
    /\ video = { [id |-> 1, video_uid |-> "u1", status |-> "PROCESSING",
                  hls_path |-> ""] }
    /\ ingest_jobs = { [ctid |-> 1, object_key |-> "uploads/u1/a.mp4",
                        etag |-> "e1", video_uid |-> "u1", video_id |-> 1,
                        status |-> "processing", started_at |-> 0,
                        retry_count |-> 0, err |-> "", finished |-> FALSE] }
    /\ segment = {}
    /\ occurrence = {}
    /\ fine_unit = CatalogRows
    /\ task = [t \in Tasks |-> IdleTask]
    /\ deliveries = 0
    /\ lark = NoLark
    /\ \E retries \in {0, max_retries}, exists \in BOOLEAN :
         conv = [pc |-> "fanout", video_id |-> 1, max_retries |-> retries,
                 exists |-> exists,
                 transcode |-> NewAdapter, asr |-> NewAdapter, error |-> ""]

NextFan ==
    \/ TranscodeStart
    \/ TranscodeAttempt
    \/ TranscodeSleep
    \/ AsrStart
    \/ AsrAttempt
    \/ AsrSleep
    \/ GatherRaises
    \/ GatherReturns
    \/ HandleErrorRun

SpecFan == InitFan /\ [][NextFan]_vars

----------------------------------------------------------------------------
(* handle_video_ingestion: the Pub/Sub push endpoint *)

MaxRequests == 2

\* dict.get of a key the decoded payload does not carry.
Absent == "<absent>"

\* The decoded data of a push body: bucket and name may be missing or empty,
\* timeCreated may be missing, ISO-8601 or not a timestamp at all.
Payloads ==
    [bucket : {Absent, "", "b"},
     name : {Absent, "uploads/u1/a.mp4", "clip.mp4"},
     etag : {Absent, "e1"},
     timeCreated : {Absent, "2025-01-10T15:30:45Z", "yesterday"}]

NoPayload ==
    [bucket |-> Absent, name |-> Absent, etag |-> Absent,
     timeCreated |-> Absent]

\* Request bodies: not JSON at all, JSON without "message", a message whose
\* data is not base64 of JSON, and a message with a decoded payload.
Bodies ==
    { [json |-> FALSE, message |-> FALSE, decodable |-> FALSE,
       data |-> NoPayload],
      [json |-> TRUE, message |-> FALSE, decodable |-> FALSE,
       data |-> NoPayload],
      [json |-> TRUE, message |-> TRUE, decodable |-> FALSE,
       data |-> NoPayload] }
    \cup { [json |-> TRUE, message |-> TRUE, decodable |-> TRUE, data |-> p] :
             p \in Payloads }

\* datetime.fromisoformat(data.get("timeCreated", now).replace("Z", "+00:00"))
IsoTime(t) == t \in {Absent, "2025-01-10T15:30:45Z"}

\* parse_pubsub_push: every exception is turned into WebhookError.  etag
\* defaults to "" and timeCreated to the current time.
ParsePubsubPush(body) ==
    IF \/ ~body.message
       \/ ~body.decodable
       \/ body.data.bucket \in {Absent, ""}
       \/ body.data.name \in {Absent, ""}
       \/ ~IsoTime(body.data.timeCreated)
    THEN [ok |-> FALSE, msg |-> NoMessage]
    ELSE [ok |-> TRUE,
          msg |-> [object_name |-> body.data.name,
                   etag |-> IF body.data.etag = Absent THEN ""
                            ELSE body.data.etag,
                   video_uid |-> ExtractVideoUid(body.data.name)]]

InIngress == "responses" \in DOMAIN conv

\* handle_video_ingestion: request.json(), parse_pubsub_push, create_task,
\* JSONResponse; WebhookError -> 400, any other exception -> 500.  There is
\* no await between the parse and the response.
HandleVideoIngestion ==
    /\ InIngress
    /\ Len(conv.responses) < MaxRequests
    /\ \E body \in Bodies :
         LET parsed == ParsePubsubPush(body) IN
         conv' =
           IF ~body.json
           THEN [conv EXCEPT !.responses = Append(@,
                    [body |-> body, status |-> 500, content_status |-> "",
                     video_uid |-> ""])]
           ELSE IF ~parsed.ok
           THEN [conv EXCEPT !.responses = Append(@,
                    [body |-> body, status |-> 400, content_status |-> "",
                     video_uid |-> ""])]
           ELSE [conv EXCEPT
                   !.responses = Append(@,
                    [body |-> body, status |-> 200,
                     content_status |-> "accepted",
                     video_uid |-> parsed.msg.video_uid]),
                   !.runs = Append(@, [msg |-> parsed.msg,
                                       request |-> Len(conv.responses) + 1,
                                       state |-> "running"])]
    /\ UNCHANGED <<clock, ingest_jobs, video, segment, occurrence, fine_unit,
                   task, deliveries, lark>>

\* _process_async: process_message ends normally (done, or an early stop of
\* the idempotency check) or raises after _handle_error; both are only
\* logged.  The run's rows are written as _finalize / _handle_error leave
\* them.
ProcessAsyncEnds ==
    /\ InIngress
    /\ \E i \in 1..Len(conv.runs), outcome \in {"done", "error", "duplicate"} :
         /\ conv.runs[i].state = "running"
         /\ outcome = "duplicate" =>
              JobRows(ingest_jobs, conv.runs[i].msg.object_name,
                      conv.runs[i].msg.etag) # {}
         /\ outcome # "duplicate" =>
              JobRows(ingest_jobs, conv.runs[i].msg.object_name,
                      conv.runs[i].msg.etag) = {}
         /\ conv' = [conv EXCEPT !.runs[i].state = outcome]
         /\ IF outcome = "duplicate"
            THEN UNCHANGED <<ingest_jobs, video>>
            ELSE LET uid == conv.runs[i].msg.video_uid
                     old == VideoRows(video, uid)
                     vid == IF old = {} THEN NextId(video)
                            ELSE (CHOOSE v \in old : TRUE).id
                 IN /\ video' = (video \ old) \cup
                         { [id |-> vid, video_uid |-> uid,
                            status |-> IF outcome = "done" THEN "READY"
                                       ELSE "ERROR",
                            hls_path |-> IF outcome = "done"
                                         THEN HlsPath(uid) ELSE ""] }
                    /\ ingest_jobs' = ingest_jobs \cup
                         { [ctid |-> NextId(ingest_jobs),
                            object_key |-> conv.runs[i].msg.object_name,
                            etag |-> conv.runs[i].msg.etag,
                            video_uid |-> uid, video_id |-> vid,
                            status |-> outcome, started_at |-> clock,
                            retry_count |-> 0,
                            err |-> IF outcome = "done" THEN ""
                                    ELSE "Unexpected error",
                            finished |-> TRUE] }
    /\ UNCHANGED <<clock, segment, occurrence, fine_unit, task, deliveries,
                   lark>>

InitIngress ==
    /\ clock = 0
    /\ ingest_jobs = {}
    /\ video = {}
    /\ segment = {}
    /\ occurrence = {}
    /\ fine_unit = CatalogRows
    /\ task = [t \in Tasks |-> IdleTask]
    /\ deliveries = 0
    /\ lark = NoLark
    /\ conv = [pc |-> "ingress", responses |-> <<>>, runs |-> <<>>]

NextIngress ==
    \/ HandleVideoIngestion
    \/ ProcessAsyncEnds

SpecIngress == InitIngress /\ [][NextIngress]_vars

----------------------------------------------------------------------------
(* save_video_analysis called repeatedly on one video *)

MaxSaves == 2
MaxAnns == 2

\* Annotations a caller may pass: on either segment, with a fine_id of the
\* catalog or one that no fine_unit row has, and with an index that is
\* negative or past the transcript.
SaveAnns ==
    { Ann(0, 1, 2, 9), Ann(1, 2, 0, 2), Ann(0, 3, 0, 1), Ann(-1, 2, 0, 2),
      Ann(5, 1, 0, 1) }

AnnLists ==
    UNION { [1..n -> SaveAnns] : n \in 0..MaxAnns }

InSave == "saves" \in DOMAIN conv

\* One call of save_video_analysis(video_id, segments, annotations, ...);
\* the call returns its stats or raises PersistenceError.
SaveCall ==
    /\ InSave
    /\ Len(conv.saves) < MaxSaves
    /\ \E dberr \in 0..1 :
         LET res == SaveVideoAnalysis(segment, occurrence, conv.video_id,
                                      conv.segs, conv.anns, conv.method,
                                      fine_unit, dberr)
             ids == InsertSegments(segment, conv.video_id, conv.segs,
                                   <<>>).ids
         IN /\ segment' = res.segment
            /\ occurrence' = res.occurrence
            /\ conv' = [conv EXCEPT !.saves = Append(@,
                          [dberr |-> dberr, raised |-> res.raised,
                           ids |-> ids, stats |-> res.stats,
                           segment |-> res.segment,
                           occurrence |-> res.occurrence])]
    /\ UNCHANGED <<clock, ingest_jobs, video, fine_unit, task, deliveries,
                   lark>>

InitSave ==
    /\ clock = 0
    /\ ingest_jobs = {}
    /\ video = { [id |-> 1, video_uid |-> "u1", status |-> "PROCESSING",
                  hls_path |-> ""] }
    /\ segment = {}
    /\ occurrence = {}
    /\ fine_unit = CatalogRows
    /\ task = [t \in Tasks |-> IdleTask]
    /\ deliveries = 0
    /\ lark = NoLark
    /\ \E segs \in AsrOutputs, anns \in AnnLists :
         conv = [pc |-> "save", video_id |-> 1, segs |-> segs, anns |-> anns,
                 method |-> "gemini_video", saves |-> <<>>]

NextSave == SaveCall

SpecSave == InitSave /\ [][NextSave]_vars

----------------------------------------------------------------------------
(* _parse_segments: from the provider's output to the Segment table *)

MaxRawSegments == 2

\* Segments of a WhisperX output: text with leading blank, plain text, only
\* a blank, empty, and a segment without the "text" key.
RawSegments ==
    [start : {0, 3}, end : {3, 5},
     text : {" I give up", "ok", " ", "", Absent}]

RawOutputs ==
    UNION { [1..n -> RawSegments] : n \in 0..MaxRawSegments }

\* str.strip()
Strip(text) ==
    CASE text = " I give up" -> "I give up"
      [] text = " " -> ""
      [] OTHER -> text

\* _parse_segments: one Segment per element of output["segments"], in order;
\* a missing key is a KeyError, turned into ASRError.
ParseSegments(output) ==
    IF \E k \in 1..Len(output) : output[k].text = Absent
    THEN [raised |-> TRUE, segments |-> <<>>]
    ELSE [raised |-> FALSE,
          segments |-> [k \in 1..Len(output) |->
                          [start |-> output[k].start, end |-> output[k].end,
                           text |-> Strip(output[k].text)]]]

InAsr == "output" \in DOMAIN conv

\* run_whisperx, step 7: segments = self._parse_segments(output)
ParseOutput ==
    /\ InAsr
    /\ conv.pc = "output"
    /\ LET parsed == ParseSegments(conv.output)
       IN conv' = IF parsed.raised
                  THEN [conv EXCEPT !.pc = "raised", !.error = "ASR failed"]
                  ELSE [conv EXCEPT !.pc = "parsed",
                                    !.segs = parsed.segments]
    /\ UNCHANGED <<clock, ingest_jobs, video, segment, occurrence, fine_unit,
                   task, deliveries, lark>>

\* _persist_data: the dicts built from asr_result.segments go to
\* save_video_analysis (here with the annotations of a run that found none).
PersistSegments ==
    /\ InAsr
    /\ conv.pc = "parsed"
    /\ LET res == SaveVideoAnalysis(segment, occurrence, conv.video_id,
                                    conv.segs, <<>>, "gemini_video",
                                    fine_unit, 0)
       IN /\ segment' = res.segment
          /\ occurrence' = res.occurrence
          /\ conv' = [conv EXCEPT !.pc = "saved"]
    /\ UNCHANGED <<clock, ingest_jobs, video, fine_unit, task, deliveries,
                   lark>>

InitAsr ==
    /\ clock = 0
    /\ video = { [id |-> 1, video_uid |-> "u1", status |-> "PROCESSING",
                  hls_path |-> ""] }
    /\ ingest_jobs = { [ctid |-> 1, object_key |-> "uploads/u1/a.mp4",
                        etag |-> "e1", video_uid |-> "u1", video_id |-> 1,
                        status |-> "processing", started_at |-> 0,
                        retry_count |-> 0, err |-> "", finished |-> FALSE] }
    /\ segment = {}
    /\ occurrence = {}
    /\ fine_unit = CatalogRows
    /\ task = [t \in Tasks |-> IdleTask]
    /\ deliveries = 0
    /\ lark = NoLark
    /\ \E output \in RawOutputs :
         conv = [pc |-> "output", video_id |-> 1, output |-> output,
                 segs |-> <<>>, error |-> ""]

NextAsr ==
    \/ ParseOutput
    \/ PersistSegments
    \/ FinalizeRun
    \/ HandleErrorRun

SpecAsr == InitAsr /\ [][NextAsr]_vars

----------------------------------------------------------------------------
(* call_with_tools: one conversation, a reply with several function calls *)

MaxCalls == 3

\* A call of a function that the tool handler does not know.
QUnknown == [name |-> "delete_fine_unit", lemma |-> "zzz",
             kind |-> "phrase_sense", definition |-> ""]

TurnCalls == {QHit, QMiss, QCreate, QUnknown}

\* _extract_function_calls: the function calls of one reply, in the order of
\* its parts; none when the reply is the final answer.
Replies == UNION { [1..k -> TurnCalls] : k \in 0..MaxCalls }

\* tool_handler_with_notification: query_fine_units (with the notification
\* of a miss), create_fine_unit (the row found by external_key, or a new
\* pending row), ValueError for any other name; dbfail is a DatabaseError of
\* the statement.  _query_word_senses and _query_phrase_senses catch every
\* exception of the SELECT and return no candidates, so a failed query is
\* "not found".
ToolHandler(fc, tbl, dbfail) ==
    IF fc.name = "query_fine_units"
    THEN LET candidates == IF dbfail THEN {}
                           ELSE QueryFineUnits(tbl, fc.lemma, fc.kind)
         IN [raised |-> FALSE, candidates |-> candidates, tbl |-> tbl,
             miss |-> candidates = {}]
    ELSE IF fc.name = "create_fine_unit"
    THEN IF dbfail
         THEN [raised |-> TRUE, candidates |-> {}, tbl |-> tbl, miss |-> FALSE]
         ELSE LET existing == ExistingFineUnits(tbl, fc.lemma, fc.definition)
                  id == NextId(tbl)
              IN IF existing # {}
                 THEN [raised |-> FALSE,
                       candidates |-> { r.id : r \in existing },
                       tbl |-> tbl, miss |-> FALSE]
                 ELSE [raised |-> FALSE, candidates |-> {id},
                       tbl |-> tbl \cup
                          { [id |-> id, kind |-> fc.kind, label |-> fc.lemma,
                             status |-> "pending",
                             external_key |->
                               ExternalKey(fc.lemma, fc.definition)] },
                       miss |-> FALSE]
    ELSE [raised |-> TRUE, candidates |-> {}, tbl |-> tbl, miss |-> FALSE]

InTurn == "function_calls" \in DOMAIN conv

\* The loop head of call_with_tools: the reply is the final answer, or it
\* carries function calls and a round begins.
LlmReplies ==
    /\ InTurn
    /\ conv.pc = "llm"
    /\ \E reply \in Replies :
         /\ reply # <<>> => /\ conv.iteration < max_iterations
                            /\ conv.iteration < MaxToolTurns
         /\ conv' = IF reply = <<>>
                    THEN [conv EXCEPT !.pc = "final"]
                    ELSE [conv EXCEPT !.pc = "tools",
                                      !.iteration = @ + 1,
                                      !.function_calls = reply,
                                      !.function_responses = <<>>,
                                      !.handled = <<>>]
    /\ UNCHANGED <<clock, ingest_jobs, video, segment, occurrence, fine_unit,
                   task, deliveries, lark>>

\* The first failing tool call ends the conversation.
ExecuteCall_mut ==
    /\ InTurn
    /\ conv.pc = "tools"
    /\ Len(conv.function_responses) < Len(conv.function_calls)
    /\ \E dbfail \in BOOLEAN :
         LET fc == conv.function_calls[Len(conv.function_responses) + 1]
             h == ToolHandler(fc, fine_unit, dbfail)
         IN /\ fine_unit' = h.tbl
            /\ lark' = IF h.miss THEN HandleNotFound(fc.kind) ELSE lark
            /\ conv' = IF h.raised
               THEN [conv EXCEPT
                 !.pc = "raised",
                 !.handled = Append(@, [call |-> fc, raised |-> h.raised,
                                       dbfail |-> dbfail])]
               ELSE [conv EXCEPT
                 !.handled = Append(@, [call |-> fc, raised |-> h.raised,
                                       dbfail |-> dbfail]),
                 !.function_responses = Append(@,
                    [name |-> fc.name, response |-> "result",
                     candidates |-> h.candidates])]
    /\ UNCHANGED <<clock, ingest_jobs, video, segment, occurrence, task,
                   deliveries>>

\* One pass of "for idx, fc in enumerate(function_calls)": the handler is
\* awaited; its result, or the text of its exception, becomes the function
\* response of this call.
ExecuteCall ==
    /\ InTurn
    /\ conv.pc = "tools"
    /\ Len(conv.function_responses) < Len(conv.function_calls)
    /\ \E dbfail \in BOOLEAN :
         LET fc == conv.function_calls[Len(conv.function_responses) + 1]
             h == ToolHandler(fc, fine_unit, dbfail)
         IN /\ fine_unit' = h.tbl
            /\ lark' = IF h.miss THEN HandleNotFound(fc.kind) ELSE lark
            /\ conv' = [conv EXCEPT
                 !.handled = Append(@, [call |-> fc, raised |-> h.raised,
                                       dbfail |-> dbfail]),
                 !.function_responses = Append(@,
                    IF h.raised
                    THEN [name |-> fc.name, response |-> "error",
                          candidates |-> {}]
                    ELSE [name |-> fc.name, response |-> "result",
                          candidates |-> h.candidates])]
    /\ UNCHANGED <<clock, ingest_jobs, video, segment, occurrence, task,
                   deliveries>>

\* chat.send_message(function_responses): one message with the responses of
\* the round; an error of the request becomes VertexError.
SendFunctionResponses ==
    /\ InTurn
    /\ conv.pc = "tools"
    /\ Len(conv.function_responses) = Len(conv.function_calls)
    /\ \E ok \in BOOLEAN :
         conv' = IF ok
                 THEN [conv EXCEPT
                         !.pc = "llm",
                         !.messages = Append(@,
                            [calls |-> conv.function_calls,
                             responses |-> conv.function_responses])]
                 ELSE [conv EXCEPT !.pc = "raised"]
    /\ UNCHANGED <<clock, ingest_jobs, video, segment, occurrence, fine_unit,
                   task, deliveries, lark>>

InitTurn ==
    /\ clock = 0
    /\ ingest_jobs = {}
    /\ video = {}
    /\ segment = {}
    /\ occurrence = {}
    /\ fine_unit = CatalogRows
    /\ task = [t \in Tasks |-> IdleTask]
    /\ deliveries = 0
    /\ lark = NoLark
    /\ conv = [pc |-> "llm", iteration |-> 0, function_calls |-> <<>>,
               function_responses |-> <<>>, handled |-> <<>>,
               messages |-> <<>>]

NextTurn ==
    \/ LlmReplies
    \/ ExecuteCall
    \/ SendFunctionResponses

SpecTurn == InitTurn /\ [][NextTurn]_vars

----------------------------------------------------------------------------
(* call_with_tools: the rounds of one conversation up to max_iterations *)

MaxParts == 2

\* Parts of a reply: a text that is the JSON object of the answer, a text
\* that is no JSON, and a function call.
TextAnswer == [kind |-> "text", json |-> TRUE, call |-> NoCall]
TextOther == [kind |-> "text", json |-> FALSE, call |-> NoCall]
CallPart == [kind |-> "function_call", json |-> FALSE, call |-> QHit]

Responses ==
    UNION { [1..n -> {TextAnswer, TextOther, CallPart}] : n \in 0..MaxParts }

\* _extract_function_calls: the function calls of the parts, in order.
ExtractFunctionCalls(response) ==
    SelectSeq(response, LAMBDA part : part.kind = "function_call")

\* _parse_response: no part gives {"annotations": []}; otherwise the text of
\* the first part is parsed; a part without text and a text that is no JSON
\* end in VertexError.
ParseResponse(response) ==
    IF response = <<>> THEN [raised |-> FALSE, annotations |-> <<>>]
    ELSE IF response[1].kind = "text" /\ response[1].json
    THEN [raised |-> FALSE, annotations |-> <<Ann(0, 1, 2, 9)>>]
    ELSE [raised |-> TRUE, annotations |-> <<>>]

LoopRuns_mut(iteration) == iteration <= max_iterations

\* while iteration < max_iterations
LoopRuns(iteration) == iteration < max_iterations

InRounds == "response" \in DOMAIN conv

\* One pass of the loop: the reply without function calls is parsed and
\* returned; otherwise its calls are executed and the function responses
\* sent, and the next reply arrives (or the request fails).
LoopRound ==
    /\ InRounds
    /\ conv.pc = "reply"
    /\ LoopRuns(conv.iteration)
    /\ LET function_calls == ExtractFunctionCalls(conv.response)
           final_result == ParseResponse(conv.response)
       IN IF function_calls = <<>>
          THEN conv' = [conv EXCEPT
                          !.iteration = @ + 1,
                          !.pc = IF final_result.raised THEN "raised"
                                 ELSE "returned",
                          !.result = final_result.annotations]
          ELSE \E next \in Responses, ok \in BOOLEAN :
                 conv' = [conv EXCEPT
                            !.iteration = @ + 1,
                            !.executed = @ + Len(function_calls),
                            !.returned = @ \cup UNION
                               { ToolHandler(function_calls[j].call,
                                             fine_unit, FALSE).candidates :
                                 j \in 1..Len(function_calls) },
                            !.pc = IF ok THEN "reply" ELSE "raised",
                            !.response = IF ok THEN next ELSE @]
    /\ UNCHANGED <<clock, ingest_jobs, video, segment, occurrence, fine_unit,
                   task, deliveries, lark>>

\* After the loop: return self._parse_response(response, ctx)
LoopExit ==
    /\ InRounds
    /\ conv.pc = "reply"
    /\ ~LoopRuns(conv.iteration)
    /\ LET final_result == ParseResponse(conv.response)
       IN conv' = [conv EXCEPT
                     !.pc = IF final_result.raised THEN "raised"
                            ELSE "returned",
                     !.result = final_result.annotations]
    /\ UNCHANGED <<clock, ingest_jobs, video, segment, occurrence, fine_unit,
                   task, deliveries, lark>>

\* The first reply of the model has arrived.
InitRounds ==
    /\ clock = 0
    /\ ingest_jobs = {}
    /\ video = {}
    /\ segment = {}
    /\ occurrence = {}
    /\ fine_unit = CatalogRows
    /\ task = [t \in Tasks |-> IdleTask]
    /\ deliveries = 0
    /\ lark = NoLark
    /\ \E first \in Responses :
         conv = [pc |-> "reply", iteration |-> 0, response |-> first,
                 executed |-> 0, returned |-> {}, result |-> <<>>]

NextRounds ==
    \/ LoopRound
    \/ LoopExit

SpecRounds == InitRounds /\ [][NextRounds]_vars

----------------------------------------------------------------------------
(* wait_for_job and wait_for_prediction: the poll loops *)

\* Seconds that one status query may take.
QueryLatency == 7

max_wait_seconds == 1800

\* poll_interval_seconds of wait_for_job and of wait_for_prediction.
PollInterval(client) == IF client = "transcoder" THEN 10 ELSE 5

\* States the service may report; the last of each set is one the loop does
\* not know.
JobStates(client) ==
    IF client = "transcoder"
    THEN {"SUCCEEDED", "FAILED", "PENDING", "RUNNING",
          "PROCESSING_STATE_UNSPECIFIED"}
    ELSE {"succeeded", "failed", "canceled", "starting", "processing",
          "queued"}

Expired_mut(elapsed) == elapsed > max_wait_seconds + QueryLatency + 10

\* if elapsed > max_wait_seconds: raise
Expired(elapsed) == elapsed > max_wait_seconds

InPoll == "elapsed" \in DOMAIN conv

\* The head of "while True": elapsed is read from the clock and compared
\* with max_wait_seconds.
PollHead ==
    /\ InPoll
    /\ conv.pc = "head"
    /\ conv' = IF Expired(conv.elapsed)
               THEN [conv EXCEPT !.pc = "raised", !.reason = "timeout"]
               ELSE [conv EXCEPT !.pc = "query"]
    /\ UNCHANGED <<clock, ingest_jobs, video, segment, occurrence, fine_unit,
                   task, deliveries, lark>>

\* get_job / get_prediction and the branch on the reported state: return on
\* succeeded, raise on failed or canceled, otherwise go to sleep; a failure
\* of the query itself is raised.
PollQuery ==
    /\ InPoll
    /\ conv.pc = "query"
    /\ \E d \in {0, QueryLatency},
          state \in JobStates(conv.client) \cup {"query failed"} :
         conv' = [conv EXCEPT
                    !.queried_at = conv.elapsed,
                    !.elapsed = @ + d,
                    !.state = state,
                    !.pc = IF state \in {"SUCCEEDED", "succeeded"}
                           THEN "returned"
                           ELSE IF state \in {"FAILED", "failed", "canceled",
                                              "query failed"}
                           THEN "raised"
                           ELSE "sleep",
                    !.reason = IF state \in {"FAILED", "failed", "canceled"}
                               THEN "failed"
                               ELSE IF state = "query failed" THEN "query"
                               ELSE @]
    /\ UNCHANGED <<clock, ingest_jobs, video, segment, occurrence, fine_unit,
                   task, deliveries, lark>>

\* await asyncio.sleep(poll_interval_seconds)
PollSleep ==
    /\ InPoll
    /\ conv.pc = "sleep"
    /\ conv' = [conv EXCEPT !.pc = "head",
                            !.elapsed = @ + PollInterval(conv.client)]
    /\ UNCHANGED <<clock, ingest_jobs, video, segment, occurrence, fine_unit,
                   task, deliveries, lark>>

InitPoll ==
    /\ clock = 0
    /\ ingest_jobs = {}
    /\ video = {}
    /\ segment = {}
    /\ occurrence = {}
    /\ fine_unit = CatalogRows
    /\ task = [t \in Tasks |-> IdleTask]
    /\ deliveries = 0
    /\ lark = NoLark
    /\ \E client \in {"transcoder", "replicate"} :
         conv = [pc |-> "head", client |-> client, elapsed |-> 0,
                 queried_at |-> 0, state |-> "", reason |-> ""]

NextPoll ==
    \/ PollHead
    \/ PollQuery
    \/ PollSleep

SpecPoll == InitPoll /\ [][NextPoll]_vars

\* The event loop resumes the coroutine when its sleep or its query is over.
SpecPollFair == SpecPoll /\ WF_vars(NextPoll)

----------------------------------------------------------------------------
(* The idempotency check under a configured processing timeout *)

\* Values of the environment variable PROCESSING_TIMEOUT_SECONDS.
ConfiguredTimeouts == {1800, 3600, 5400}

InConfigured == "processing_timeout_seconds" \in DOMAIN conv

\* Config.from_env: processing_timeout_seconds is read from the environment;
\* the workflow is constructed with this Config.
InitConfigured ==
    /\ clock = 0
    /\ ingest_jobs = {}
    /\ video = {}
    /\ segment = {}
    /\ occurrence = {}
    /\ fine_unit = CatalogRows
    /\ task = [t \in Tasks |-> IdleTask]
    /\ deliveries = 0
    /\ lark = NoLark
    /\ \E T \in ConfiguredTimeouts : conv = [processing_timeout_seconds |-> T]

\* Deliveries up to the end of _check_idempotency; a run that has passed the
\* check goes on until the process is shut down.
NextConfigured ==
    \/ Tick
    \/ Shutdown
    \/ \E t \in Tasks, m \in Messages : Deliver(t, m)
    \/ \E t \in Tasks : CheckExisting(t)
    \/ \E t \in Tasks : ResetTimedOut(t)
    \/ \E t \in Tasks : CheckMissing(t)
    \/ \E t \in Tasks : VideoSelect(t)
    \/ \E t \in Tasks : VideoInsert(t)
    \/ \E t \in Tasks : JobInsert(t)

SpecConfigured == InitConfigured /\ [][NextConfigured]_vars

----------------------------------------------------------------------------
(* Properties of the annotation run *)

Score(x) == 0 <= x /\ x <= 1

\* C9: every Occurrence row has a span with 0 <= start < end <= the length
\* of the text of the Segment row its segment_id references, and both
\* comprehensibility scores in [0,1].
C9_OccurrenceSpanWithinSegment ==
    \A o \in occurrence : \A s \in segment :
        s.id = o.segment_id
        => /\ 0 <= o.evidence.span.start
           /\ o.evidence.span.start < o.evidence.span.end
           /\ o.evidence.span.end <= Len(s.text)
           /\ Score(o.evidence.visual_comprehensibility)
           /\ Score(o.evidence.textual_comprehensibility)

\* C10: every annotation that _process_segment accepts at the end of a
\* conversation carries a fine_id that a query_fine_units or create_fine_unit
\* call of that same conversation returned.
C10_AcceptedFineIdsWereReturned ==
    [][ (conv.pc = "segments" /\ conv'.pc = "segments")
        => \A i \in Workers :
             LET old == conv.w[i]
                 new == conv'.w[i]
             IN (old.pc = "llm" /\ Len(new.all_anns) > Len(old.all_anns))
                => \A k \in (Len(old.all_anns) + 1)..Len(new.all_anns) :
                     new.all_anns[k].fine_id \in old.returned ]_vars

\* Number of annotations contributed by the segments before segment i.
RECURSIVE Offset(_, _)
Offset(w, i) == IF i <= 1 THEN 0 ELSE Offset(w, i - 1) + Len(w[i - 1].all_anns)

IsPrefix(a, b) == Len(a) <= Len(b) /\ SubSeq(b, 1, Len(a)) = a

\* C11: whatever the order in which the segment tasks finish, the list
\* process_video returns is the concatenation of the segments' batches in
\* increasing segment index, and inside a batch the word annotations are
\* appended after the phrase annotations, so a segment contributes
\* N_p + N_w items.
C11_MergeInSegmentOrder ==
    [][ /\ (conv.pc = "segments" /\ conv'.pc = "segments")
           => \A i \in Workers :
                LET old == conv.w[i]
                    new == conv'.w[i]
                IN /\ (old.annotator = "phrase" /\ old.pc \in {"queued", "llm", "insert"})
                      => old.all_anns = <<>>
                   /\ new.all_anns # old.all_anns
                      => \/ IsPrefix(old.all_anns, new.all_anns)
                         \/ new.pc = "done" /\ new.all_anns = <<>>
        /\ (conv.pc = "segments" /\ conv'.pc = "persist")
           => /\ Len(conv'.annotations) = Offset(conv.w, Len(conv.w) + 1)
              /\ \A i \in Workers :
                   SubSeq(conv'.annotations, Offset(conv.w, i) + 1,
                          Offset(conv.w, i) + Len(conv.w[i].all_anns))
                     = conv.w[i].all_anns
      ]_vars

\* Both segments contributed a phrase and a word annotation each.
C11_Witness ==
    /\ conv.pc = "persist"
    /\ Len(conv.annotations) = 4
    /\ conv.annotations[2] # conv.annotations[3]

\* C12: when the task of a segment fails (a conversation raises VertexError,
\* or process_one fails as a whole), one error notification is emitted, the
\* run stays in its fan-out, the failed task goes on to its next conversation
\* or ends with what it had or nothing, and no other segment's task and no
\* table is changed.
C12_FailureIsolation ==
    [][ (conv.pc = "segments" /\ lark'.error # lark.error)
        => /\ conv'.pc = "segments"
           /\ lark'.error = lark.error + 1
           /\ fine_unit' = fine_unit
           /\ segment' = segment /\ occurrence' = occurrence
           /\ \E i \in Workers :
                /\ \A j \in Workers : j # i => conv'.w[j] = conv.w[j]
                /\ conv'.w[i].pc \in {"llm", "done"}
                /\ \/ conv'.w[i].all_anns = conv.w[i].all_anns
                   \/ conv'.w[i].all_anns = <<>>
      ]_vars

\* A run of two segments in which a task failed has returned the other
\* segment's annotations.
C12_Witness ==
    /\ conv.pc = "persist"
    /\ Len(conv.segs) = 2
    /\ lark.error >= 1
    /\ conv.annotations # <<>>

\* Segment i's process_one waits for the semaphore / is inside it.
WaitsForSlot(i) ==
    conv.pc = "segments" /\ i \in DOMAIN conv.w /\ conv.w[i].pc = "queued"

HoldsSlot(i) ==
    conv.pc = "segments" /\ i \in DOMAIN conv.w
        /\ conv.w[i].pc \in {"llm", "insert"}

\* C13: at no time do more tasks hold a semaphore slot than the configured
\* width, and every task that waits for a slot eventually holds one.
C13_ConcurrencyCap ==
    /\ [](conv.pc = "segments" =>
            Cardinality({ i \in DOMAIN conv.w : HoldsSlot(i) }) <= conv.width)
    /\ \A i \in 1..2 : WaitsForSlot(i) ~> HoldsSlot(i)

\* With width 1 the second segment's task holds the slot after the first
\* one's task has finished.
C13_Witness ==
    /\ conv.pc = "segments"
    /\ conv.width = 1
    /\ Len(conv.segs) = 2
    /\ conv.w[1].pc = "done"
    /\ HoldsSlot(2)

Insertable(a, segs, catalog) ==
    /\ 0 <= a.segment_index /\ a.segment_index < Len(segs)
    /\ a.fine_id \in FineIds(catalog)

\* The Occurrence row of annotation a is in the tables.
Durable(a, segs, segtbl, occtbl) ==
    \E o \in occtbl, sg \in segtbl :
        /\ o.segment_id = sg.id
        /\ sg.text = segs[a.segment_index + 1].text
        /\ o.fine_id = a.fine_id
        /\ o.evidence.span = a.span

\* C15: when save_video_analysis of a list that mixes valid annotations with
\* annotations whose fine_id does not exist returns without raising, every
\* annotation with a nonexistent fine_id is counted as skipped once, and
\* every valid annotation, before or after an invalid one, has its Occurrence
\* row in the table.
C15_ForeignKeyTolerance ==
    [][ (conv.pc = "persist" /\ conv'.pc = "saved")
        => LET anns == conv.annotations
               valid == { k \in 1..Len(anns) :
                            Insertable(anns[k], conv.segs, fine_unit) }
               unknown == { k \in 1..Len(anns) :
                              /\ 0 <= anns[k].segment_index
                              /\ anns[k].segment_index < Len(conv.segs)
                              /\ anns[k].fine_id \notin FineIds(fine_unit) }
           IN unknown # {}
              => /\ conv'.stats.occurrences_skipped
                      = Cardinality((1..Len(anns)) \ valid)
                 /\ \A k \in valid :
                      Durable(anns[k], conv.segs, segment', occurrence')
      ]_vars

\* The rows that carry the external_key of the create_fine_unit call fc.
KeyedRows(tbl, fc) == ExistingFineUnits(tbl, fc.lemma, fc.definition)

\* C17: a create_fine_unit call that starts when a row with its external_key
\* exists inserts nothing and returns the fine_id of that one row with the
\* row's current status, pending or active; a row is inserted only by a call
\* made when the external_key was free.
C17_CreateIdempotentSequentially ==
    [][ /\ \A i \in Workers :
             LET w == conv.w[i]
                 w2 == conv'.w[i]
                 existing == KeyedRows(fine_unit, QCreate)
             IN (/\ w.pc = "llm"
                 /\ conv'.pc = "segments"
                 /\ \/ w2.pc = "insert"
                    \/ w2.iteration = w.iteration + 1 /\ w2.result # NoResult
                 /\ existing # {})
                => /\ fine_unit' = fine_unit
                   /\ w2.pc = "llm"
                   /\ Cardinality(existing) = 1
                   /\ \A r \in existing :
                        /\ w2.result = [fine_id |-> r.id, status |-> r.status]
                        /\ r.status \in {"pending", "active"}
                        /\ r.id \in w2.returned
        /\ KeyedRows(fine_unit', QCreate) # KeyedRows(fine_unit, QCreate)
             /\ KeyedRows(fine_unit, QCreate) # {}
           => \E r \in KeyedRows(fine_unit, QCreate) :
                KeyedRows(fine_unit', QCreate) = {[r EXCEPT !.status = "active"]}
      ]_vars

\* A second create_fine_unit call has returned the row after its promotion.
C17_Witness ==
    /\ conv.pc = "segments"
    /\ \E i \in DOMAIN conv.w :
         /\ conv.w[i].result.status = "active"
         /\ conv.w[i].result.fine_id \in FineIds(KeyedRows(fine_unit, QCreate))

\* C18: every create_fine_unit call that went on to its INSERT comes back
\* with the fine_id of the one row that carries its external_key, not with
\* an error.
C18_ConcurrentCreateConverges ==
    [][ \A i \in Workers :
          (conv.w[i].pc = "insert" /\ conv'.pc = "segments"
             /\ conv'.w[i].pc = "llm")
          => LET rows == KeyedRows(fine_unit', conv.w[i].call)
             IN /\ Cardinality(rows) = 1
                /\ \A r \in rows : conv'.w[i].result.fine_id = r.id
      ]_vars

\* C19: a conversation runs at most max_iterations rounds of tool calls and
\* sends at most max_iterations + 1 messages to the model; after the last
\* round its next step ends it, with an answer or with an error.
C19_BoundedFunctionCallLoop ==
    [][ \A i \in Workers :
          conv'.pc = "segments"
          => LET w == conv.w[i]
                 w2 == conv'.w[i]
             IN /\ w2.iteration <= max_iterations
                /\ w2.sent <= max_iterations + 1
                /\ (w.pc = "llm" /\ w.iteration = max_iterations /\ w2 # w)
                   => w2.iteration = 0 /\ (w2.pc = "done" \/ w2.annotator # w.annotator)
      ]_vars

\* A conversation has used all its rounds.
C19_Witness ==
    /\ conv.pc = "segments"
    /\ \E i \in DOMAIN conv.w :
         /\ conv.w[i].pc = "llm"
         /\ conv.w[i].iteration = max_iterations
         /\ conv.w[i].sent = max_iterations + 1

\* The step is a query_fine_units round of segment i's conversation.
QueryRound(i) ==
    /\ conv.pc = "segments" /\ conv'.pc = "segments"
    /\ conv.w[i].pc = "llm"
    /\ conv'.w[i].iteration = conv.w[i].iteration + 1
    /\ conv'.w[i].call.name = "query_fine_units"

C21_NotifierFailuresAreSwallowed ==
    [][ /\ lark'.webhook = lark.webhook
        /\ lark'.delivered - lark.delivered
             = IF lark.webhook = "ok"
               THEN (lark'.error + lark'.warning + lark'.info)
                      - (lark.error + lark.warning + lark.info)
               ELSE 0
        /\ conv.pc = "segments" => conv'.pc \in {"segments", "persist"}
        /\ (conv.pc = "segments" /\ lark' # lark)
           => \E i \in Workers :
                LET w == conv.w[i]
                    w2 == conv'.w[i]
                IN /\ \A j \in Workers : j # i => conv'.w[j] = conv.w[j]
                   /\ \/ w2 = EndConversation(w, <<>>)
                      \/ w2 = [QueuedWorker EXCEPT !.pc = "done"]
                      \/ /\ w2.pc = "llm"
                         /\ w2.iteration = w.iteration + 1
                         /\ w2.returned = w.returned
                         /\ w2.all_anns = w.all_anns
        /\ (conv.pc = "raised" /\ conv'.pc # "raised")
           => /\ conv'.pc = "failed"
              /\ \A r \in ingest_jobs' : r.status = "error"
              /\ \A v \in video' : v.status = "ERROR"
      ]_vars

\* A run whose notifications all failed to be dispatched has been finalized
\* with its Occurrence rows.
C21_Witness ==
    /\ conv.pc = "finalized"
    /\ lark.webhook # "ok"
    /\ lark.error >= 1
    /\ lark.warning >= 1
    /\ lark.delivered = 0
    /\ occurrence # {}
    /\ \A r \in ingest_jobs : r.status = "done"
    /\ \A v \in video : v.status = "READY"

Adapters == IF InFanOut THEN {conv.transcode, conv.asr} ELSE {}

\* C22: an adapter makes at most max_retries attempts; the k-th wait is
\* retry_backoff_seconds * 2^(k-1) and follows the failed attempt k; an
\* attempt starts after as many waits as attempts before it; an adapter that
\* has ended has not waited after its last attempt; and when it ended without
\* success the transcoding adapter has returned failed and the ASR adapter
\* has raised.
C22_AdapterRetryPolicy ==
    /\ \A a \in Adapters :
         /\ a.attempts <= conv.max_retries
         /\ \A k \in 1..Len(a.sleeps) :
              a.sleeps[k] = retry_backoff_seconds * 2 ^ (k - 1)
         /\ a.pc = "attempt" => Len(a.sleeps) = a.attempts
         /\ a.pc = "sleep"
              => Len(a.sleeps) = a.attempts - 1 /\ a.attempts < conv.max_retries
         /\ a.pc = "done"
              => Len(a.sleeps) = IF a.attempts = 0 THEN 0 ELSE a.attempts - 1
    /\ InFanOut
       => /\ conv.transcode.pc = "done"
               => conv.transcode.result \in {"success", "failed"}
          /\ conv.asr.pc = "done" => conv.asr.result \in {"success", "raised"}

\* Both adapters have used all their attempts and failed.
C22_Witness ==
    /\ InFanOut
    /\ conv.transcode.pc = "done" /\ conv.transcode.result = "failed"
    /\ conv.transcode.attempts = max_retries
    /\ conv.transcode.sleeps = <<1, 2>>
    /\ conv.asr.pc = "done" /\ conv.asr.result = "raised"
    /\ conv.asr.attempts = max_retries
    /\ conv.asr.sleeps = <<1, 2>>

\* C29: the run leaves the fan-out, to annotation or to error handling, only
\* when the transcoding task and the ASR task have both ended, and no adapter
\* task is running when the run's job is marked done or error.
C29_FanOutJoin ==
    [][ InFanOut
        => /\ (conv.pc = "fanout" /\ conv'.pc # "fanout")
              => conv.transcode.pc = "done" /\ conv.asr.pc = "done"
           /\ (\E r \in ingest_jobs' : r.status \in {"done", "error"})
              => conv'.transcode.pc = "done" /\ conv'.asr.pc = "done"
      ]_vars


\* C23: Ingress response contract.  A body without message, with undecodable
\* data, or whose payload lacks bucket, name, etag or timeCreated is answered
\* 400, starts no run and leaves the IngestJob and Video rows alone; a
\* payload that carries all four is answered 200 {accepted, video_uid} while
\* its run is still running; a response never changes afterwards.
Lacking(body) ==
    \/ ~body.message
    \/ ~body.decodable
    \/ Absent \in {body.data.bucket, body.data.name, body.data.etag,
                   body.data.timeCreated}

Complete(body) ==
    /\ body.json /\ body.message /\ body.decodable
    /\ body.data.bucket = "b"
    /\ body.data.name \notin {Absent, ""}
    /\ body.data.etag = "e1"
    /\ body.data.timeCreated = "2025-01-10T15:30:45Z"

C23_IngressResponseContract ==
    [][ InIngress =>
          /\ \A k \in 1..Len(conv.responses) :
               conv'.responses[k] = conv.responses[k]
          /\ Len(conv'.responses) > Len(conv.responses) =>
               LET r == conv'.responses[Len(conv'.responses)] IN
               /\ (r.body.json /\ Lacking(r.body)) =>
                    /\ r.status = 400
                    /\ conv'.runs = conv.runs
                    /\ ingest_jobs' = ingest_jobs /\ video' = video
               /\ Complete(r.body) =>
                    /\ r.status = 200
                    /\ r.content_status = "accepted"
                    /\ r.video_uid = ExtractVideoUid(r.body.data.name)
                    /\ Len(conv'.runs) = Len(conv.runs) + 1
                    /\ conv'.runs[Len(conv'.runs)].state = "running" ]_vars


\* C24: Catalog frame condition.  No step of a run (lookup, creation,
\* annotation, persistence, finalisation, error handling) changes or removes
\* an existing FineUnit row; the only write is create_fine_unit's insert of
\* one new row with status pending; active rows are left as they are.  The
\* reviewer's promotion of a pending row is not an operation of the run.
C24_CatalogFrame ==
    [][ /\ \A r \in fine_unit : r.status = "active" => r \in fine_unit'
        /\ ~Promote =>
             /\ fine_unit \subseteq fine_unit'
             /\ Cardinality(fine_unit' \ fine_unit) <= 1
             /\ \A r \in fine_unit' \ fine_unit :
                  /\ r.status = "pending"
                  /\ \E i \in Workers :
                       /\ conv.w[i].pc = "insert"
                       /\ conv.w[i].call.name = "create_fine_unit"
                       /\ conv'.w[i].result.fine_id = r.id ]_vars

C24_Witness ==
    /\ conv.pc = "finalized"
    /\ CatalogRows \subseteq fine_unit
    /\ \E r \in fine_unit \ CatalogRows : r.status = "pending"
    /\ occurrence # {}


\* C25: save is idempotent.  When save has returned and is called again with
\* the same video_id, segments and annotations (and the database reports no
\* failure of its own), the second call does not raise, leaves the Segment
\* and Occurrence tables as the first call left them, returns the same
\* segment id per position, reports occurrences_inserted = 0 and counts as
\* skipped only what the first call skipped.
C25_SaveIdempotent ==
    (/\ InSave
     /\ Len(conv.saves) = 2
     /\ conv.saves[1].dberr = 0 /\ conv.saves[2].dberr = 0
     /\ ~conv.saves[1].raised)
    => /\ ~conv.saves[2].raised
       /\ conv.saves[2].segment = conv.saves[1].segment
       /\ conv.saves[2].occurrence = conv.saves[1].occurrence
       /\ conv.saves[2].ids = conv.saves[1].ids
       /\ conv.saves[2].stats.occurrences_inserted = 0
       /\ conv.saves[2].stats.occurrences_skipped
            = conv.saves[1].stats.occurrences_skipped


\* C26: Segment well-formedness.  Every Segment row has non-empty text: an
\* ASR segment whose text is empty is dropped before the insert.
C26_SegmentTextNonEmpty ==
    \A r \in segment : r.text # ""


\* C27: the validator binds annotations to their segment.  Every annotation
\* that the task of segment i (0-based) has accepted carries segment_index
\* i, and every annotation of the merged output is attached to the row of
\* the segment whose task produced it.
C27_ValidatorBindsSegment ==
    \A i \in Workers : \A k \in 1..Len(conv.w[i].all_anns) :
        conv.w[i].all_anns[k].segment_index = i - 1


\* C28: per-annotator isolation within a segment.  When the conversation of
\* one annotator for segment i fails, by an error of the language model or
\* by any other exception, the annotations already obtained for segment i
\* are kept and nothing is added; a failure of the phrase annotator still
\* lets the word annotator of that segment run.
C28_AnnotatorIsolation ==
    [][ \A i \in Workers :
          ((ConversationFails(i) \/ ProcessOneFails(i))
             /\ conv'.pc = "segments")
          => /\ conv'.w[i].all_anns = conv.w[i].all_anns
             /\ conv.w[i].annotator = "phrase"
                  => conv'.w[i].pc = "llm" /\ conv'.w[i].annotator = "word"
             /\ conv.w[i].annotator = "word" => conv'.w[i].pc = "done" ]_vars


\* C30: tool-call turn.  The function calls of a reply are executed one by
\* one in reply order; each yields one function response, an error response
\* exactly when the handler failed on that call; the round's single message
\* carries exactly as many responses as the reply had calls, in the same
\* order; a handler failure neither stops the remaining calls nor ends the
\* conversation.
C30_ToolCallTurn ==
    InTurn =>
      /\ Len(conv.handled) = Len(conv.function_responses)
      /\ Len(conv.function_responses) <= Len(conv.function_calls)
      /\ \A j \in 1..Len(conv.handled) :
           /\ conv.handled[j].call = conv.function_calls[j]
           /\ conv.function_responses[j].name = conv.function_calls[j].name
           /\ conv.function_responses[j].response = "error"
                <=> conv.handled[j].raised
      /\ conv.pc \in {"llm", "raised", "final"}
           => Len(conv.function_responses) = Len(conv.function_calls)
      /\ Len(conv.messages) = IF conv.pc \in {"llm", "final"}
                              THEN conv.iteration ELSE conv.iteration - 1
      /\ \A m \in 1..Len(conv.messages) :
           /\ Len(conv.messages[m].calls) >= 1
           /\ Len(conv.messages[m].responses) = Len(conv.messages[m].calls)
           /\ \A j \in 1..Len(conv.messages[m].calls) :
                conv.messages[m].responses[j].name
                  = conv.messages[m].calls[j].name

C30_Witness ==
    /\ InTurn
    /\ conv.pc = "final"
    /\ Len(conv.messages) = 1
    /\ conv.messages[1].calls = <<QUnknown, QCreate, QHit>>
    /\ conv.messages[1].responses[1].response = "error"
    /\ conv.messages[1].responses[2].response = "result"
    /\ conv.messages[1].responses[3].candidates # {}


C32_ExistenceCheckBeforeSubmit ==
    \A a \in Adapters : a.submits > 0 => a.checked /\ conv.exists


\* C33: the poll loops terminate.  Whatever states the service reports,
\* wait_for_job and wait_for_prediction end: they return only on succeeded,
\* raise on failed or canceled, raise a timeout once the elapsed time has
\* exceeded max_wait_seconds, and issue no status query after that.
C33_PollLoopsTerminate ==
    /\ [](InPoll =>
            /\ conv.queried_at <= max_wait_seconds
            /\ conv.pc = "returned" => conv.state \in {"SUCCEEDED", "succeeded"}
            /\ conv.state \in {"FAILED", "failed", "canceled"}
                 => conv.pc = "raised" /\ conv.reason = "failed"
            /\ (conv.pc = "raised" /\ conv.reason = "timeout")
                 => conv.elapsed > max_wait_seconds
            /\ (conv.pc \in {"query", "sleep"})
                 => conv.elapsed <= max_wait_seconds + QueryLatency)
    /\ <>(InPoll /\ conv.pc \in {"returned", "raised"})

C33_Witness ==
    /\ InPoll
    /\ conv.pc = "raised"
    /\ conv.reason = "timeout"
    /\ conv.state \in {"PROCESSING_STATE_UNSPECIFIED", "queued"}
    /\ conv.queried_at > max_wait_seconds - 10

\* C34: an annotation whose segment_index is not in 0 .. len(segments)-1
\* (negative values included) is skipped: it is counted in
\* occurrences_skipped and no Occurrence row of any segment comes from it.
C34_OutOfRangeSegmentIndexSkipped ==
    (InSave /\ Len(conv.saves) >= 1 /\ ~conv.saves[1].raised)
    => LET out == { i \in 1..Len(conv.anns) :
                      conv.anns[i].segment_index \notin 0..(Len(conv.segs) - 1) }
           inr == (1..Len(conv.anns)) \ out
       IN /\ conv.saves[1].stats.occurrences_skipped >= Cardinality(out)
          /\ \A r \in conv.saves[1].occurrence :
               \E i \in inr :
                 /\ r.segment_id
                      = conv.saves[1].ids[conv.anns[i].segment_index + 1]
                 /\ r.fine_id = conv.anns[i].fine_id
                 /\ r.evidence.span = conv.anns[i].span

\* C35: the threshold of the idempotency check is the configured
\* PROCESSING_TIMEOUT_SECONDS.  For any configured value T, the check of a
\* delivery that finds a processing row with started_at set stops the
\* delivery when the row's age is below T and resets the row when its age is
\* at least T.
C35_ConfiguredTimeout ==
    [][ \A t \in Tasks :
          ( /\ InConfigured
            /\ task[t].pc = "check"
            /\ task'[t].pc \notin {"check", "idle"} )
          => \A row \in KeyRows(ingest_jobs, t) :
               (row.status = "processing" /\ row.started_at # NULL)
               => IF clock - row.started_at < conv.processing_timeout_seconds
                  THEN task'[t].pc = "he_job"
                       /\ task'[t].error = "Task already processing"
                  ELSE task'[t].pc = "reset" ]_vars

\* C36: the reported statistics match the durable state.  Whenever save
\* returns normally, every input segment is a row of the Segment table and
\* the number of Occurrence rows that the call added to the table equals the
\* returned occurrences_inserted.
C36_StatsMatchDurableState ==
    InSave =>
      \A k \in 1..Len(conv.saves) :
        ~conv.saves[k].raised =>
          LET before == IF k = 1 THEN {} ELSE conv.saves[k - 1].occurrence
          IN /\ \A i \in 1..Len(conv.segs) :
                  \E r \in conv.saves[k].segment :
                    /\ r.video_id = conv.video_id
                    /\ r.t_start = conv.segs[i].start
                    /\ r.t_end = conv.segs[i].end
                    /\ r.text = conv.segs[i].text
             /\ Cardinality(conv.saves[k].occurrence \ before)
                  = conv.saves[k].stats.occurrences_inserted

\* C37: error handling is scoped to the failing job.  The error handler of a
\* failed or stopped run for (object_key, content_hash) changes only the
\* IngestJob row with that key pair: rows with another object_key or
\* content_hash, also with the same video_uid, keep their status, err and
\* finished_at.
C37_ErrorScopedToFailingJob ==
    [][ \A t \in Tasks :
          (task[t].pc = "he_job" /\ task'[t].pc = "he_video")
          => \A r \in ingest_jobs :
               (r.object_key # task[t].msg.object_name
                  \/ r.etag # task[t].msg.etag)
               => \E n \in ingest_jobs' :
                    /\ n.object_key = r.object_key /\ n.etag = r.etag
                    /\ n.status = r.status /\ n.err = r.err
                    /\ n.finished = r.finished ]_vars

\* C38: a single active run per key on re-processing.  From the moment a run
\* has passed the idempotency check until it finalizes or fails, the
\* IngestJob row of its key has status processing with started_at set, also
\* when the run started from an existing error, queued or timed-out row; and
\* at most one run per (object_key, content_hash) is past the check at a
\* time.
C38_SingleActiveRunPerKey ==
    \A t \in Tasks :
      ( /\ task[t].passed
        /\ task[t].pc \in {"fanout", "agentic", "persist", "finalize_video",
                           "finalize_job"} )
      => /\ KeyRows(ingest_jobs, t) # {}
         /\ \A r \in KeyRows(ingest_jobs, t) :
              r.status = "processing" /\ r.started_at # NULL
         /\ \A u \in Tasks \ {t} :
              ~( /\ task[u].passed
                 /\ task[u].msg = task[t].msg
                 /\ task[u].pc \in {"fanout", "agentic", "persist",
                                    "finalize_video", "finalize_job"} )

\* C39: every run reaches a terminal job state.  A run that passed the
\* idempotency check leaves the IngestJob row of its key in status done or
\* error: at the step where process_message returns or raises, the row is
\* not queued or processing.  (This is the part of the claim that every
\* ending run must satisfy; that each run does end follows from the returns
\* of its calls.)
C39_RunEndsInTerminalJobState ==
    [][ \A t \in Tasks :
          (task[t].passed /\ task'[t].pc \in {"done", "raised"} /\ Stepped(t))
          => /\ KeyRows(ingest_jobs', t) # {}
             /\ \A r \in KeyRows(ingest_jobs', t) :
                  r.status \in {"done", "error"} ]_vars

\* C40: a catalog failure is not a miss.  For a query_fine_units call, a
\* not-found notification is emitted, and an empty candidate list is
\* returned to the LM, only when the catalog holds no active row matching
\* the query; when the catalog query fails with a database error, the call's
\* function response is an error and no not-found notification is sent.
C40_CatalogFailureIsNotAMiss ==
    [][ ( /\ InTurn
          /\ conv.pc = "tools"
          /\ Len(conv'.handled) = Len(conv.handled) + 1 )
        => LET h == conv'.handled[Len(conv'.handled)]
               resp == conv'.function_responses[Len(conv'.function_responses)]
           IN h.call.name = "query_fine_units"
              => /\ (lark' # lark
                       \/ (resp.response = "result" /\ resp.candidates = {}))
                    => /\ ~h.dbfail
                       /\ QueryFineUnits(fine_unit, h.call.lemma, h.call.kind)
                            = {}
                 /\ h.dbfail => (resp.response = "error" /\ lark' = lark)
      ]_vars

====
